---- MODULE Spec2Model ----
(***************************************************************************)
(* DialUp: symbol codec (core/encoder.js, core/decoder.js), the visual     *)
(* framing state machine (capture/colorTracker.js with the debouncing      *)
(* classifier of capture/frameAnalyzer.js) and the audio framing state     *)
(* machine (audio/audioDecoder.js).                                        *)
(*                                                                         *)
(* JavaScript arrays and strings are 0-based; TLA+ sequences are 1-based.  *)
(* Every index named after a JavaScript variable (startIndex, syncIndex,   *)
(* ...) keeps its 0-based JavaScript value, -1 meaning "not found".        *)
(* A text is the sequence of its UTF-16 code units; a binary string is a   *)
(* sequence of the digits 0 and 1.                                         *)
(***************************************************************************)
EXTENDS Integers, Sequences, FiniteSets, TLC

VARIABLES
    \* ---- codec harness: one caller driving encode / decode ----
    cpc,            \* "idle" | "encoded" | "framed" | "decoded"
    msgText,        \* the text last handed to encode
    encoded,        \* what encode returned (or the error it threw)
    frame,          \* the colour sequence about to be handed to decode
    frameKind,      \* "none" | "encode" | "corrupt" | "received"
    decoded,        \* what decode returned (or the error it threw)
    \* ---- visual channel: createColorTracker and its frame analyzer ----
    tracker,        \* the closure state of createColorTracker
    now,            \* the clock (Date.now()), in time units
    \* ---- audio channel: createAudioDecoder ----
    audio,          \* the closure state of createAudioDecoder
    audioTime,      \* audioContext.currentTime, in hundredths of a second
    frameRequests,  \* requestAnimationFrame(processAudioFrame) callbacks pending, by session
    channel,        \* the physical channel being driven: "visual" | "audio"
    \* ---- a frame analyzer on its own (createFrameAnalyzer) ----
    classifier,     \* the closure state of createFrameAnalyzer
    ctime,          \* the timestamp handed to analyzeColor, in time units
    \* ---- createMessageSequencer feeding createMessageAssembler ----
    sequencer,      \* the closure state of createMessageSequencer
    outbox,         \* what the last fragmentMessage returned, and what is left to deliver
    assembler,      \* the closure state of createMessageAssembler
    \* ---- createNetworkManager ----
    net,            \* the closure state of createNetworkManager
    netTime,        \* Date.now(), in time units
    \* ---- createModeController ----
    controller,     \* the closure state of createModeController
    \* ---- createErrorCorrection ----
    corrector,      \* the closure state of createErrorCorrection
    \* ---- several network managers and their transport ----
    mesh            \* the managers, the messages in flight and the clock

codecVars == <<cpc, msgText, encoded, frame, frameKind, decoded>>
trackerVars == <<tracker, now>>
audioVars == <<audio, audioTime, frameRequests>>
classifierVars == <<classifier, ctime>>
fragmentVars == <<sequencer, outbox, assembler>>
networkVars == <<net, netTime>>
modeVars == <<controller>>
correctionVars == <<corrector>>
meshVars == <<mesh>>

vars == <<codecVars, trackerVars, audioVars, channel, classifierVars, fragmentVars, networkVars,
          modeVars, correctionVars, meshVars>>

\* what the actions of one component leave alone
codecRest == <<trackerVars, audioVars, channel, classifierVars, fragmentVars, networkVars,
                  modeVars, correctionVars, meshVars>>
trackerRest == <<codecVars, audioVars, channel, classifierVars, fragmentVars, networkVars,
                  modeVars, correctionVars, meshVars>>
audioRest == <<codecVars, trackerVars, channel, classifierVars, fragmentVars, networkVars,
                  modeVars, correctionVars, meshVars>>
classifierRest == <<codecVars, trackerVars, audioVars, channel, fragmentVars, networkVars,
                  modeVars, correctionVars, meshVars>>
fragmentRest == <<codecVars, trackerVars, audioVars, channel, classifierVars, networkVars,
                  modeVars, correctionVars, meshVars>>
networkRest == <<codecVars, trackerVars, audioVars, channel, classifierVars, fragmentVars,
                  modeVars, correctionVars, meshVars>>
controllerRest == <<codecVars, trackerVars, audioVars, channel, classifierVars, fragmentVars,
                    networkVars, correctionVars, meshVars>>
correctorRest == <<codecVars, trackerVars, audioVars, channel, classifierVars, fragmentVars,
                   networkVars, modeVars, meshVars>>
meshRest == <<codecVars, trackerVars, audioVars, channel, classifierVars, fragmentVars,
              networkVars, modeVars, correctionVars>>

-----------------------------------------------------------------------------
(* Bounds of the model *)

\* longest text handed to encode
MaxTextLen == 3
\* longest arbitrary colour sequence handed to decode
MaxFrameLen == 6

\* code units the texts are built from: NUL, 'H', 'i', DEL (all ASCII)
Chars == {0, 72, 105, 127}

RECURSIVE SeqsUpTo(_, _)
SeqsUpTo(S, n) ==
    IF n = 0 THEN {<<>>}
    ELSE LET shorter == SeqsUpTo(S, n - 1)
         IN  shorter \cup {Append(s, x) : s \in {t \in shorter : Len(t) = n - 1}, x \in S}

Texts == SeqsUpTo(Chars, MaxTextLen)

-----------------------------------------------------------------------------
(* JavaScript built-ins used by the code *)

Min(a, b) == IF a < b THEN a ELSE b
Max(a, b) == IF a > b THEN a ELSE b

\* Array.prototype.slice(begin, end) / String.prototype.slice
slice(s, begin, end) ==
    LET len  == Len(s)
        from == IF begin < 0 THEN Max(len + begin, 0) ELSE Min(begin, len)
        to   == IF end < 0 THEN Max(len + end, 0) ELSE Min(end, len)
    IN  IF to <= from THEN <<>> ELSE SubSeq(s, from + 1, to)

\* Array.prototype.indexOf(x, fromIndex)
indexOf(s, x, fromIndex) ==
    LET len == Len(s)
        k   == IF fromIndex >= 0 THEN fromIndex ELSE Max(len + fromIndex, 0)
        hit == {i \in k..(len - 1) : s[i + 1] = x}
    IN  IF hit = {} THEN -1 ELSE CHOOSE i \in hit : \A j \in hit : i <= j

\* Array.prototype.lastIndexOf(x, fromIndex): a negative fromIndex counts
\* from the end of the array (len + fromIndex)
lastIndexOf(s, x, fromIndex) ==
    LET len == Len(s)
        k   == IF fromIndex >= 0 THEN Min(fromIndex, len - 1) ELSE len + fromIndex
        hit == {i \in 0..k : s[i + 1] = x}
    IN  IF hit = {} THEN -1 ELSE CHOOSE i \in hit : \A j \in hit : i >= j

\* Number.prototype.toString(2) of a non-negative integer
RECURSIVE toString2(_)
toString2(n) == IF n < 2 THEN <<n>> ELSE Append(toString2(n \div 2), n % 2)

\* String.prototype.padStart(w, '0') / padEnd(w, '0')
padStart(s, w) == IF Len(s) >= w THEN s ELSE [i \in 1..(w - Len(s)) |-> 0] \o s
padEnd(s, w) == IF Len(s) >= w THEN s ELSE s \o [i \in 1..(w - Len(s)) |-> 0]

\* parseInt(s, 2) of a non-empty binary string
RECURSIVE parseInt2(_)
parseInt2(s) ==
    IF Len(s) = 0 THEN 0
    ELSE 2 * parseInt2(SubSeq(s, 1, Len(s) - 1)) + s[Len(s)]

RECURSIVE join(_)
join(ss) == IF Len(ss) = 0 THEN <<>> ELSE ss[1] \o join(Tail(ss))

RECURSIVE sum(_)
sum(s) == IF Len(s) = 0 THEN 0 ELSE s[1] + sum(Tail(s))

CeilDiv(a, b) == (a + b - 1) \div b

-----------------------------------------------------------------------------
(* core/encoder.js *)

COLORS == << "#FF0000", "#00FF00", "#0000FF", "#FFFF00",
             "#FF00FF", "#00FFFF", "#FFFFFF", "#000000" >>

START_SIGNAL == "#FF00FF"
END_SIGNAL == "#0000FF"
SYNC_SIGNAL == "#FFFFFF"

COLOR_BITS == 3

\* COLORS[index] with JavaScript's 0-based index
colorAt(index) == COLORS[index + 1]

textToBinary(text) ==
    join([i \in 1..Len(text) |-> padStart(toString2(text[i]), 8)])

\* binaryToColorIndexes with the last chunk padded on the left
binaryToColorIndexesPadStart(binary) ==
    [k \in 1..CeilDiv(Len(binary), COLOR_BITS) |->
        parseInt2(padStart(slice(binary, COLOR_BITS * (k - 1), COLOR_BITS * k),
                           COLOR_BITS))]

binaryToColorIndexes(binary) ==
    [k \in 1..CeilDiv(Len(binary), COLOR_BITS) |->
        parseInt2(padEnd(slice(binary, COLOR_BITS * (k - 1), COLOR_BITS * k),
                         COLOR_BITS))]

calculateChecksum(colorIndexes) == sum(colorIndexes) % 8

encodeText(text) ==
    LET binary        == textToBinary(text)
        colorIndexes  == binaryToColorIndexes(binary)
        checksum      == calculateChecksum(colorIndexes)
        colorSequence == [i \in 1..Len(colorIndexes) |-> colorAt(colorIndexes[i])]
    IN  <<START_SIGNAL, SYNC_SIGNAL>> \o colorSequence
            \o <<colorAt(checksum), SYNC_SIGNAL, END_SIGNAL>>

createMetadataHeader(text) ==
    LET lengthBinary       == padStart(toString2(Len(text)), 8)
        lengthColorIndexes == binaryToColorIndexes(lengthBinary)
    IN  [i \in 1..Len(lengthColorIndexes) |-> colorAt(lengthColorIndexes[i])]

\* encode throws on an empty text; otherwise returns {colors, metadata}
encode(text) ==
    IF Len(text) = 0
    THEN [ok |-> FALSE, colors |-> <<>>, error |-> "Cannot encode empty message"]
    ELSE LET metadataHeader  == createMetadataHeader(text)
             messageSequence == encodeText(text)
         IN  [ok     |-> TRUE,
              colors |-> <<START_SIGNAL>> \o metadataHeader \o <<SYNC_SIGNAL>>
                            \o slice(messageSequence, 1, Len(messageSequence)),
              error  |-> ""]

-----------------------------------------------------------------------------
(* core/decoder.js *)

colorToIndex(color) == indexOf(COLORS, color, 0)

colorIndexesToBinary(colorIndexes) ==
    join([i \in 1..Len(colorIndexes) |-> padStart(toString2(colorIndexes[i]), COLOR_BITS)])

\* decoder.js binaryToText: 8-bit chunks, the last one zero-padded on the right
binaryToText(binary) ==
    [k \in 1..CeilDiv(Len(binary), 8) |->
        parseInt2(padEnd(slice(binary, 8 * (k - 1), 8 * k), 8))]

verifyChecksum(colorIndexes, receivedChecksum) ==
    sum(colorIndexes) % 8 = receivedChecksum

\* null is written NoLength
NoLength == -1

extractMessageLength(colorSequence) ==
    LET startIndex == indexOf(colorSequence, START_SIGNAL, 0)
        syncIndex  == indexOf(colorSequence, SYNC_SIGNAL, startIndex + 1)
        metadataColors  == slice(colorSequence, startIndex + 1, syncIndex)
        metadataIndexes == [i \in 1..Len(metadataColors) |-> colorToIndex(metadataColors[i])]
        metadataBinary  == colorIndexesToBinary(metadataIndexes)
    IN  IF startIndex = -1 THEN NoLength
        ELSE IF syncIndex = -1 THEN NoLength
        ELSE IF Len(metadataColors) = 0 THEN NoLength
        ELSE parseInt2(slice(metadataBinary, 0, 8))

ErrTooShort == "Invalid color sequence: too short"
ErrNoStart == "Invalid color sequence: no start signal found"
ErrNoEnd == "Invalid color sequence: no end signal found"
ErrNoSync == "Invalid color sequence: no sync signal found"
ErrNoFinalSync == "Invalid color sequence: no final sync signal found"
ErrChecksum == "Invalid color sequence: checksum verification failed"

Thrown(message) ==
    [ok |-> FALSE, text |-> <<>>, error |-> message, expectedLength |-> NoLength]

\* dataColors.pop() on an empty array yields undefined, whose colorToIndex is -1
popIndex(dataColors) ==
    IF Len(dataColors) = 0 THEN -1 ELSE colorToIndex(dataColors[Len(dataColors)])

decode(colorSequence) ==
    LET startIndex     == indexOf(colorSequence, START_SIGNAL, 0)
        endIndex       == lastIndexOf(colorSequence, END_SIGNAL, Len(colorSequence) - 1)
        expectedLength == extractMessageLength(colorSequence)
        syncIndex      == indexOf(colorSequence, SYNC_SIGNAL, startIndex + 1)
        lastSyncIndex  == lastIndexOf(colorSequence, SYNC_SIGNAL, endIndex - 1)
        dataAndSum     == slice(colorSequence, syncIndex + 1, lastSyncIndex)
        checksumIndex  == popIndex(dataAndSum)
        dataColors     == slice(dataAndSum, 0, Max(Len(dataAndSum) - 1, 0))
        colorIndexes   == [i \in 1..Len(dataColors) |-> colorToIndex(dataColors[i])]
        binary         == colorIndexesToBinary(colorIndexes)
    IN  IF Len(colorSequence) < 5 THEN Thrown(ErrTooShort)
        ELSE IF startIndex = -1 THEN Thrown(ErrNoStart)
        ELSE IF endIndex = -1 THEN Thrown(ErrNoEnd)
        ELSE IF syncIndex = -1 THEN Thrown(ErrNoSync)
        ELSE IF lastSyncIndex = -1 THEN Thrown(ErrNoFinalSync)
        ELSE IF ~verifyChecksum(colorIndexes, checksumIndex) THEN Thrown(ErrChecksum)
        ELSE [ok |-> TRUE, text |-> binaryToText(binary), error |-> "",
              expectedLength |-> expectedLength]

-----------------------------------------------------------------------------
(* The codec's caller: encode a text, optionally damage one data symbol on  *)
(* the channel, decode; or decode an arbitrary received colour sequence.    *)

NoEncode == [ok |-> FALSE, colors |-> <<>>, error |-> ""]
NoDecode == [ok |-> FALSE, text |-> <<>>, error |-> "", expectedLength |-> NoLength]

\* colours the arbitrary received sequences are built from
FrameColors == {START_SIGNAL, END_SIGNAL, SYNC_SIGNAL, "#FF0000", "#00FF00"}

\* 0-based positions of the data symbols inside encode(text).colors: after
\* START, the metadata header and the SYNC symbols that precede the data
DataPositions(text) ==
    LET first == 1 + Len(createMetadataHeader(text)) + 2
        count == Len(binaryToColorIndexes(textToBinary(text)))
    IN  first..(first + count - 1)

CodecInit ==
    /\ cpc = "idle"
    /\ msgText = <<>>
    /\ encoded = NoEncode
    /\ frame = <<>>
    /\ frameKind = "none"
    /\ decoded = NoDecode

Encode ==
    /\ UNCHANGED codecRest
    /\ cpc = "idle"
    /\ \E text \in Texts :
        /\ msgText' = text
        /\ encoded' = encode(text)
        /\ frame' = encode(text).colors
        /\ frameKind' = IF encode(text).ok THEN "encode" ELSE "none"
    /\ cpc' = "encoded"
    /\ UNCHANGED decoded

\* channel noise: one data symbol of the encoded frame is replaced by another colour
Corrupt ==
    /\ UNCHANGED codecRest
    /\ cpc = "encoded"
    /\ frameKind = "encode"
    /\ \E pos \in DataPositions(msgText), index \in 0..7 :
        /\ colorAt(index) # frame[pos + 1]
        /\ frame' = [frame EXCEPT ![pos + 1] = colorAt(index)]
    /\ frameKind' = "corrupt"
    /\ cpc' = "framed"
    /\ UNCHANGED <<msgText, encoded, decoded>>

Receive ==
    /\ UNCHANGED codecRest
    /\ cpc = "idle"
    /\ \E colorSequence \in SeqsUpTo(FrameColors, MaxFrameLen) :
        frame' = colorSequence
    /\ frameKind' = "received"
    /\ cpc' = "framed"
    /\ UNCHANGED <<msgText, encoded, decoded>>

Decode ==
    /\ UNCHANGED codecRest
    /\ \/ cpc = "framed"
       \/ cpc = "encoded" /\ frameKind = "encode"
    /\ decoded' = decode(frame)
    /\ cpc' = "decoded"
    /\ UNCHANGED <<msgText, encoded, frame, frameKind>>

CodecReset ==
    /\ UNCHANGED codecRest
    /\ cpc \in {"encoded", "decoded"}
    /\ cpc' = "idle"
    /\ msgText' = <<>>
    /\ encoded' = NoEncode
    /\ frame' = <<>>
    /\ frameKind' = "none"
    /\ decoded' = NoDecode

CodecNext == Encode \/ Corrupt \/ Receive \/ Decode \/ CodecReset

-----------------------------------------------------------------------------
(* capture/frameAnalyzer.js: the debouncing colour classifier *)

\* options of the tracker and its analyzer (DEFAULT_OPTIONS, scaled down;
\* one time unit stands for minChangeTime milliseconds)
threshold == 50
minChangeTime == 1
samplesRequired == 2
maxSequenceLength == 5
timeoutDuration == 2

\* last instant of the clock
MaxTime == 8
\* cap on the analyzer's stableColorCount, which grows with every repeated sample
MaxStable == 2

\* no colour (null)
NoColor == "null"

\* hexToRgb on the eight palette entries
hexToRgb(hex) ==
    CASE hex = "#FF0000" -> <<255, 0, 0>>
      [] hex = "#00FF00" -> <<0, 255, 0>>
      [] hex = "#0000FF" -> <<0, 0, 255>>
      [] hex = "#FFFF00" -> <<255, 255, 0>>
      [] hex = "#FF00FF" -> <<255, 0, 255>>
      [] hex = "#00FFFF" -> <<0, 255, 255>>
      [] hex = "#FFFFFF" -> <<255, 255, 255>>
      [] hex = "#000000" -> <<0, 0, 0>>

\* the square of colorDistance (Math.sqrt is monotone, so distances are
\* compared through their squares)
colorDistance2(rgb1, rgb2) ==
    (rgb1[1] - rgb2[1]) * (rgb1[1] - rgb2[1])
    + (rgb1[2] - rgb2[2]) * (rgb1[2] - rgb2[2])
    + (rgb1[3] - rgb2[3]) * (rgb1[3] - rgb2[3])

\* findClosestColor: the first palette entry at minimal distance
findClosestColor(rgb) ==
    LET d2(i) == colorDistance2(rgb, hexToRgb(COLORS[i]))
        best  == CHOOSE i \in 1..8 :
                    /\ \A j \in 1..8 : d2(i) <= d2(j)
                    /\ \A j \in 1..(i - 1) : d2(j) > d2(i)
    IN  [color |-> COLORS[best], index |-> best - 1, distance2 |-> d2(best)]

\* RGB samples the camera delivers: the three markers, a noisy red and a
\* grey that matches no palette colour
Samples ==
    { <<255, 0, 255>>, <<0, 0, 255>>, <<255, 255, 255>>, <<240, 20, 10>>,
      <<128, 128, 128>> }

\* findClosestColor tabulated over the samples
closestOf == [rgb \in Samples |-> findClosestColor(rgb)]

AnalyzerInit ==
    [lastDetectedColor |-> NoColor, lastChangeTime |-> 0,
     stableColorCount |-> 0, currentSamples |-> <<>>]

\* analyzeColor without the comparison with lastDetectedColor: a stable
\* colour is returned at every sample
analyzeColorEverySample(a, rgb, timestamp) ==
    LET match   == closestOf[rgb]
        pushed  == Append(a.currentSamples, match.color)
        samples == IF Len(pushed) > samplesRequired THEN Tail(pushed) ELSE pushed
    IN  IF match.distance2 > threshold * threshold
        THEN [state |-> [a EXCEPT !.stableColorCount = 0, !.currentSamples = <<>>],
              detected |-> NoColor]
        ELSE IF Len(samples) = samplesRequired
                /\ \A i \in 1..Len(samples) : samples[i] = samples[1]
                /\ timestamp - a.lastChangeTime >= minChangeTime
        THEN [state |-> [lastDetectedColor |-> samples[1], lastChangeTime |-> timestamp,
                         stableColorCount |-> 0, currentSamples |-> samples],
              detected |-> samples[1]]
        ELSE [state |-> [a EXCEPT !.currentSamples = samples], detected |-> NoColor]

\* analyzeColor(rgb, timestamp): the analyzer's next state and, in
\* `detected`, the value returned (NoColor for null)
analyzeColor(a, rgb, timestamp) ==
    LET match   == closestOf[rgb]
        pushed  == Append(a.currentSamples, match.color)
        samples == IF Len(pushed) > samplesRequired THEN Tail(pushed) ELSE pushed
        allSamplesMatch ==
            /\ Len(samples) = samplesRequired
            /\ \A i \in 1..Len(samples) : samples[i] = samples[1]
        detectedColor == samples[1]
    IN  IF match.distance2 > threshold * threshold
        THEN [state |-> [a EXCEPT !.stableColorCount = 0, !.currentSamples = <<>>],
              detected |-> NoColor]
        ELSE IF ~allSamplesMatch
        THEN [state |-> [a EXCEPT !.stableColorCount = 0, !.currentSamples = samples],
              detected |-> NoColor]
        ELSE IF detectedColor = a.lastDetectedColor
        THEN [state |-> [a EXCEPT !.stableColorCount = @ + 1, !.currentSamples = samples],
              detected |-> NoColor]
        ELSE IF timestamp - a.lastChangeTime >= minChangeTime
        THEN [state |-> [lastDetectedColor |-> detectedColor,
                         lastChangeTime |-> timestamp,
                         stableColorCount |-> 0,
                         currentSamples |-> samples],
              detected |-> detectedColor]
        ELSE [state |-> [a EXCEPT !.currentSamples = samples], detected |-> NoColor]

-----------------------------------------------------------------------------
(* core/decoder.js: processReceivedColor *)

\* a null decoding state; `uncaught` marks an exception of decode that leaves
\* processReceivedColor instead of being turned into the error state (the
\* try / catch around decode rules it out)
NullState ==
    [isNull |-> TRUE, collecting |-> FALSE, colors |-> <<>>, complete |-> FALSE,
     hasMessage |-> FALSE, message |-> NoDecode, error |-> "", uncaught |-> FALSE]

\* endOfTransmission without the catch: the exception of decode leaves
\* processReceivedColor
endOfTransmissionUncaught(updatedColors, result) ==
    [isNull |-> FALSE, collecting |-> FALSE, colors |-> updatedColors,
     complete |-> result.ok, hasMessage |-> result.ok, message |-> result,
     error |-> result.error, uncaught |-> ~result.ok]

\* the state processReceivedColor returns for END: the try branch when decode
\* returned, the catch branch when it threw
endOfTransmission(updatedColors, result) ==
    IF result.ok
    THEN [isNull |-> FALSE, collecting |-> FALSE, colors |-> updatedColors,
          complete |-> TRUE, hasMessage |-> TRUE, message |-> result,
          error |-> "", uncaught |-> FALSE]
    ELSE [isNull |-> FALSE, collecting |-> FALSE, colors |-> updatedColors,
          complete |-> TRUE, hasMessage |-> FALSE, message |-> NoDecode,
          error |-> result.error, uncaught |-> FALSE]

\* try { decode(updatedColors) } catch (err) { ... }
tryDecode(updatedColors) == endOfTransmission(updatedColors, decode(updatedColors))

processReceivedColor(state, color) ==
    IF color = START_SIGNAL
    THEN [isNull |-> FALSE, collecting |-> TRUE, colors |-> <<color>>,
          complete |-> FALSE, hasMessage |-> FALSE, message |-> NoDecode,
          error |-> "", uncaught |-> FALSE]
    ELSE IF state.isNull THEN [NullState EXCEPT !.isNull = FALSE]
    ELSE IF state.collecting
    THEN IF color = END_SIGNAL
         THEN tryDecode(Append(state.colors, color))
         ELSE [state EXCEPT !.colors = Append(@, color)]
    ELSE state

-----------------------------------------------------------------------------
(* capture/colorTracker.js *)

\* no timer pending
NoTimer == -1

\* one callback invocation: cb is "message" (onMessageCallback) or "status"
\* (onStatusChangeCallback, with its status, the error message if any and the
\* decoded text if any)
Event(cb, status, reason, text) ==
    [cb |-> cb, status |-> status, reason |-> reason, text |-> text]

\* State after createColorTracker().  timerDue is the instant the pending
\* setTimeout is due (NoTimer: none pending; timeoutId keeps the id of a timer
\* that fired).  The last five fields describe the entry point that ran last:
\* its name, the stable colour the analyzer returned to it, the outcome of
\* the decode it ran (`decodes` times), the callbacks it fired, in order, and
\* whether it ended by an exception.
TrackerState0 ==
    [tracking |-> FALSE, colorSequence |-> <<>>, decodingState |-> NullState,
     lastActivityTime |-> 0, timeoutId |-> FALSE, timerDue |-> NoTimer,
     onMessageCallback |-> FALSE, onStatusChangeCallback |-> FALSE,
     analyzer |-> AnalyzerInit,
     entry |-> "none", detected |-> NoColor, decodes |-> 0, result |-> NoDecode,
     events |-> <<>>, threw |-> FALSE]

\* an entry point starts: nothing detected, decoded or reported yet
enter(t, name) ==
    [t EXCEPT !.entry = name, !.detected = NoColor, !.decodes = 0,
              !.result = NoDecode, !.events = <<>>, !.threw = FALSE]

updateStatus(t, status, reason, text) ==
    IF t.onStatusChangeCallback
    THEN [t EXCEPT !.events = Append(@, Event("status", status, reason, text))]
    ELSE t

notifyMessage(t, message) ==
    IF t.onMessageCallback
    THEN [t EXCEPT !.events = Append(@, Event("message", "", "", message.text))]
    ELSE t

\* reset(): clears the sequence, the decoding state, the timer and the analyzer
reset(t) ==
    updateStatus([t EXCEPT !.tracking = FALSE,
                           !.colorSequence = <<>>,
                           !.decodingState = NullState,
                           !.timeoutId = FALSE,
                           !.timerDue = NoTimer,
                           !.analyzer = AnalyzerInit],
                 "reset", "", <<>>)

\* startTimeout(): clears an existing timer and sets a new one
startTimeout(t, clock) ==
    [t EXCEPT !.timeoutId = TRUE, !.timerDue = clock + timeoutDuration]

\* resetTimeout(): restarts the timer only when timeoutId is set
resetTimeout(t, clock) ==
    IF t.timeoutId THEN startTimeout(t, clock) ELSE t

ErrTooLong == "Maximum sequence length exceeded"

\* the length check off by one
sequenceTooLongOffByOne(colorSequence) == Len(colorSequence) > maxSequenceLength + 1

\* colorSequence.length > trackerOptions.maxSequenceLength
sequenceTooLong(colorSequence) == Len(colorSequence) > maxSequenceLength

\* completeMessage without its reset()
completeMessageNoReset(t) ==
    IF t.decodingState.hasMessage
    THEN updateStatus(notifyMessage(t, t.decodingState.message),
                      "decoded", "", t.decodingState.message.text)
    ELSE updateStatus(t, "error", t.decodingState.error, <<>>)

\* the branch of processColor taken when decodingState.complete
completeMessage(t) ==
    IF t.decodingState.hasMessage
    THEN reset(updateStatus(notifyMessage(t, t.decodingState.message),
                            "decoded", "", t.decodingState.message.text))
    ELSE reset(updateStatus(t, "error", t.decodingState.error, <<>>))

\* decodingState = processReceivedColor(decodingState, detectedColor), and
\* the if (decodingState && decodingState.complete) block that follows it
decodeColor(t, next) ==
    LET fed == [t EXCEPT
                  !.decodingState = next,
                  !.decodes = IF next.complete THEN 1 ELSE 0,
                  !.result  = IF ~next.complete THEN NoDecode
                              ELSE IF next.hasMessage THEN next.message
                              ELSE Thrown(next.error)]
    IN  IF next.uncaught
        THEN [t EXCEPT !.decodes = 1, !.result = Thrown(next.error), !.threw = TRUE]
        ELSE IF ~next.isNull /\ next.complete THEN completeMessage(fed)
        ELSE fed

\* what processColor does with a colour it pushed, unless the sequence is
\* too long: status, decoding step, resetTimeout()
continueTracking(t, detectedColor, clock) ==
    LET done == decodeColor(updateStatus(t, "tracking", "", <<>>),
                            processReceivedColor(t.decodingState, detectedColor))
    IN  IF done.threw THEN done ELSE resetTimeout(done, clock)

\* the maximum-length check of processColor
checkLength(t, detectedColor, clock) ==
    IF sequenceTooLong(t.colorSequence)
    THEN reset(updateStatus(t, "error", ErrTooLong, <<>>))
    ELSE continueTracking(t, detectedColor, clock)

\* trackColor keeping SYNC out of colorSequence
trackColorSkipSync(t, detectedColor, clock) ==
    IF detectedColor = SYNC_SIGNAL
    THEN checkLength(t, detectedColor, clock)
    ELSE checkLength([t EXCEPT !.colorSequence = Append(@, detectedColor)],
                     detectedColor, clock)

\* the branch of processColor taken for a stable colour while tracking
trackColor(t, detectedColor, clock) ==
    checkLength([t EXCEPT !.colorSequence = Append(@, detectedColor)],
                detectedColor, clock)

\* startTracking that forgets tracking = true
startTrackingStayIdle(t, detectedColor, clock) ==
    startTimeout(
        updateStatus([t EXCEPT !.colorSequence = <<detectedColor>>,
                               !.decodingState = processReceivedColor(NullState, detectedColor)],
                     "started", "", <<>>),
        clock)

\* the branch of processColor taken for START while not tracking
startTracking(t, detectedColor, clock) ==
    startTimeout(
        updateStatus([t EXCEPT !.tracking = TRUE,
                               !.colorSequence = <<detectedColor>>,
                               !.decodingState = processReceivedColor(NullState, detectedColor)],
                     "started", "", <<>>),
        clock)

\* the if (detectedColor) block of processColor
handleDetected(t, seen, timestamp) ==
    LET t1 == [t EXCEPT !.analyzer = seen.state, !.detected = seen.detected]
    IN  IF seen.detected = NoColor THEN t1
        ELSE IF t1.tracking THEN trackColor(t1, seen.detected, timestamp)
        ELSE IF seen.detected = START_SIGNAL THEN startTracking(t1, seen.detected, timestamp)
        ELSE t1

\* processColor(rgb, timestamp)
processColor(t, rgb, timestamp) ==
    handleDetected([enter(t, "processColor") EXCEPT !.lastActivityTime = timestamp],
                   analyzeColor(t.analyzer, rgb, timestamp), timestamp)

\* the callback startTimeout hands to setTimeout
timeoutCallback(t, clock) ==
    LET t1 == [enter(t, "timeout") EXCEPT !.timerDue = NoTimer]
        timeSinceActivity == clock - t1.lastActivityTime
    IN  IF t1.tracking /\ timeSinceActivity >= timeoutDuration
        THEN reset(updateStatus(t1, "timeout", "", <<>>))
        ELSE t1

\* the clock starts at minChangeTime: Date.now() is far beyond it, so the
\* analyzer's first stable colour is never held back by lastChangeTime = 0
TrackerInit ==
    /\ tracker = TrackerState0
    /\ now = minChangeTime

\* the application registers its callbacks before it feeds the first frame
Unfed(entry) == entry \in {"none", "onMessage", "onStatusChange"}

OnMessage ==
    /\ UNCHANGED trackerRest
    /\ channel = "visual"
    /\ Unfed(tracker.entry)
    /\ ~tracker.onMessageCallback
    /\ tracker' = [enter(tracker, "onMessage") EXCEPT !.onMessageCallback = TRUE]
    /\ UNCHANGED now

OnStatusChange ==
    /\ UNCHANGED trackerRest
    /\ channel = "visual"
    /\ Unfed(tracker.entry)
    /\ ~tracker.onStatusChangeCallback
    /\ tracker' = [enter(tracker, "onStatusChange") EXCEPT !.onStatusChangeCallback = TRUE]
    /\ UNCHANGED now

\* a camera frame arrives; frames stop timeoutDuration before the last
\* instant of the clock, so that every timer they arm comes due
ProcessColor ==
    /\ UNCHANGED trackerRest
    /\ channel = "visual"
    /\ tracker.analyzer.stableColorCount < MaxStable
    /\ now + timeoutDuration <= MaxTime
    /\ \E rgb \in Samples : tracker' = processColor(tracker, rgb, now)
    /\ UNCHANGED now

\* the pending timer fires, not before it is due
TimerFire ==
    /\ UNCHANGED trackerRest
    /\ channel = "visual"
    /\ tracker.timerDue # NoTimer
    /\ now >= tracker.timerDue
    /\ tracker' = timeoutCallback(tracker, now)
    /\ UNCHANGED now

\* reset() called by the application
Reset ==
    /\ UNCHANGED trackerRest
    /\ channel = "visual"
    /\ tracker.tracking
    /\ tracker' = reset(enter(tracker, "reset"))
    /\ UNCHANGED now

Tick ==
    /\ UNCHANGED trackerRest
    /\ channel = "visual"
    /\ now < MaxTime
    /\ now' = now + 1
    /\ UNCHANGED tracker

TrackerNext == OnMessage \/ OnStatusChange \/ ProcessColor \/ TimerFire \/ Reset \/ Tick

-----------------------------------------------------------------------------
(* audio/audioDecoder.js (with AUDIO_CONFIG of audio/audioEncoder.js) *)

\* AUDIO_CONFIG and DECODE_CONFIG; frequencies in Hz, durations in
\* hundredths of a second (symbolDuration 0.05 s, its tolerance 0.01 s)
sampleRate == 44100
baseFrequency == 1000
freqShift == 200
symbolDuration == 5
symbolSlack == 1
startMarkerFreq == 2000
endMarkerFreq == 2200
syncFreq == 1800
frequencyTolerance == 30
symbolCount == 8
\* analyser.frequencyBinCount = fftSize / 2
frequencyBinCount == 512

\* last instant of the audio clock
MaxAudioTime == 56
\* cap on the symbol buffer, which the decoder itself never bounds
MaxSymbolBuffer == 4

\* no frequency (null)
NoFrequency == -1

Abs(x) == IF x < 0 THEN -x ELSE x

\* A spectrum is given by what findDominantFrequency reads of it: the first
\* bin of maximal magnitude and that magnitude (0..255).  The frequency
\* maxIndex * sampleRate / (2 * bufferLength) is kept as the integer
\* maxIndex * sampleRate, that is in units of 1 / (2 * bufferLength) Hz.
FreqUnit == 2 * frequencyBinCount

\* maxValue > minSignalStrength * 255, with minSignalStrength = 0.1
findDominantFrequency(frequencyData) ==
    IF 10 * frequencyData.maxValue > 255
    THEN frequencyData.maxIndex * sampleRate
    ELSE NoFrequency

\* Math.abs(dominantFrequency - markerFreq) < DECODE_CONFIG.frequencyTolerance
nearMarker(dominantFrequency, markerFreq) ==
    Abs(dominantFrequency - markerFreq * FreqUnit) < frequencyTolerance * FreqUnit

\* Math.round((dominantFrequency - baseFrequency) / freqShift)
symbolIndexOf(dominantFrequency) ==
    (2 * (dominantFrequency - baseFrequency * FreqUnit) + freqShift * FreqUnit)
        \div (2 * freqShift * FreqUnit)

ErrSymbolsTooShort == "Symbol sequence too short"
ErrNoRoomForMetadata == "Symbol sequence too short for metadata"
ErrSymbolChecksum == "Checksum verification failed"

\* decodeSymbols(symbols): metadataLength = ceil(8 / log2(symbolCount)) = 3
decodeSymbols(symbols) ==
    LET metadataLength == CeilDiv(8, COLOR_BITS)
        dataSymbols    == slice(symbols, metadataLength, Len(symbols) - 1)
        checksumSymbol == symbols[Len(symbols)]
        binary == join([i \in 1..Len(dataSymbols) |->
                           padStart(toString2(dataSymbols[i]), COLOR_BITS)])
    IN  IF Len(symbols) < 3 THEN Thrown(ErrSymbolsTooShort)
        ELSE IF Len(symbols) <= metadataLength THEN Thrown(ErrNoRoomForMetadata)
        ELSE IF sum(dataSymbols) % symbolCount # checksumSymbol
        THEN Thrown(ErrSymbolChecksum)
        ELSE [ok |-> TRUE, text |-> binaryToText(binary), error |-> "",
              expectedLength |-> NoLength]

\* State after createAudioDecoder().  The last six fields describe the entry
\* point that ran last: its name, the dominant frequency it found, the
\* outcome of the decodeSymbols it ran (`decodes` times), the callbacks it
\* fired, in order, whether it ended by an exception, and, for a run of
\* processAudioFrame, whether the animation frame was requested by the
\* session that is listening ("live") or by one that was stopped ("stale").
AudioState0 ==
    [isListening |-> FALSE, isDecoding |-> FALSE, symbolBuffer |-> <<>>,
     lastSymbolTime |-> 0, currentMessage |-> NoDecode,
     onMessageCallback |-> FALSE, onStatusChangeCallback |-> FALSE,
     entry |-> "none", heard |-> NoFrequency, decodes |-> 0, result |-> NoDecode,
     events |-> <<>>, threw |-> FALSE, request |-> "none",
     \* the tone in the air: its spectrum, when it began, whether the decoder
     \* was decoding then, and the frames that observed it and the symbols
     \* they added so far
     tone |-> [frequencyData |-> [maxIndex |-> -1, maxValue |-> 0], since |-> 0,
               decoding |-> FALSE, frames |-> 0, added |-> 0]]

audioEnter(a, name) ==
    [a EXCEPT !.entry = name, !.heard = NoFrequency, !.decodes = 0,
              !.result = NoDecode, !.events = <<>>, !.threw = FALSE,
              !.request = "none"]

\* resetDecodingState()
resetDecodingState(a) ==
    [a EXCEPT !.isDecoding = FALSE, !.symbolBuffer = <<>>, !.lastSymbolTime = 0,
              !.currentMessage = NoDecode]

\* the try / catch of the end-marker branch, entered with a non-empty buffer
reportDecoded(a, decodedMessage) ==
    LET tried == [a EXCEPT !.decodes = 1, !.result = decodedMessage]
    IN  IF decodedMessage.ok
        THEN updateStatus(
                 notifyMessage([tried EXCEPT !.currentMessage = decodedMessage],
                               decodedMessage),
                 "decoded", "", decodedMessage.text)
        ELSE updateStatus(tried, "error", decodedMessage.error, <<>>)

\* the end-marker branch of processAudioFrame
endMarker(a) ==
    LET done == IF Len(a.symbolBuffer) = 0 THEN a
                ELSE reportDecoded(a, decodeSymbols(a.symbolBuffer))
    IN  [done EXCEPT !.isDecoding = FALSE, !.symbolBuffer = <<>>]

\* the regular-symbol branch of processAudioFrame
regularSymbol(a, dominantFrequency, clock) ==
    LET symbolIndex == symbolIndexOf(dominantFrequency)
        timeSinceLastSymbol == clock - a.lastSymbolTime
    IN  IF symbolIndex >= 0 /\ symbolIndex < symbolCount
           /\ timeSinceLastSymbol >= symbolDuration - symbolSlack
        THEN updateStatus([a EXCEPT !.symbolBuffer = Append(@, symbolIndex),
                                    !.lastSymbolTime = clock],
                          "symbol", "", <<>>)
        ELSE a

\* the inactivity check that ends processAudioFrame
inactivityCheck(a, clock) ==
    IF a.isDecoding /\ (clock - a.lastSymbolTime) > symbolDuration * 10
    THEN [updateStatus(a, "timeout", "", <<>>) EXCEPT
             !.isDecoding = FALSE, !.symbolBuffer = <<>>]
    ELSE a

\* the if (dominantFrequency) block of processAudioFrame
handleFrequency(a, dominantFrequency, clock) ==
    IF dominantFrequency = NoFrequency \/ dominantFrequency = 0 THEN a
    ELSE IF ~a.isDecoding /\ nearMarker(dominantFrequency, startMarkerFreq)
    THEN updateStatus([a EXCEPT !.isDecoding = TRUE,
                                !.lastSymbolTime = clock,
                                !.symbolBuffer = <<>>],
                      "started", "", <<>>)
    ELSE IF a.isDecoding /\ nearMarker(dominantFrequency, endMarkerFreq)
    THEN endMarker(a)
    ELSE IF a.isDecoding /\ nearMarker(dominantFrequency, syncFreq)
    THEN [a EXCEPT !.lastSymbolTime = clock]
    ELSE IF a.isDecoding
    THEN regularSymbol(a, dominantFrequency, clock)
    ELSE a

\* the frame's work once the dominant frequency is known
analyzeFrame(a, dominantFrequency, clock) ==
    inactivityCheck(
        handleFrequency([a EXCEPT !.heard = dominantFrequency], dominantFrequency, clock),
        clock)

\* processAudioFrame() on the spectrum the analyser holds
processAudioFrame(a, frequencyData, clock) ==
    IF ~a.isListening THEN audioEnter(a, "processAudioFrame")
    ELSE analyzeFrame(audioEnter(a, "processAudioFrame"),
                      findDominantFrequency(frequencyData), clock)

\* spectra the microphone delivers: silence, a tone too weak to count, and
\* strong tones near 990 Hz (symbol 0), 1809 Hz (SYNC), 1981 Hz (START, or
\* symbol 5 while decoding), 2196 Hz (END) and 2584 Hz (no symbol)
Spectra ==
    { [maxIndex |-> -1, maxValue |-> 0],
      [maxIndex |-> 46, maxValue |-> 20],
      [maxIndex |-> 23, maxValue |-> 200],
      [maxIndex |-> 42, maxValue |-> 200],
      [maxIndex |-> 46, maxValue |-> 200],
      [maxIndex |-> 51, maxValue |-> 200],
      [maxIndex |-> 60, maxValue |-> 200] }

\* steps of the audio clock between two animation frames
AudioSteps == {4, 50}

\* most animation-frame callbacks the model lets be pending at once
MaxFrameRequests == 2

AudioInit ==
    /\ audio = AudioState0
    /\ audioTime = 0
    /\ frameRequests = [live |-> 0, stale |-> 0]

AudioOnMessage ==
    /\ UNCHANGED audioRest
    /\ channel = "audio"
    /\ Unfed(audio.entry)
    /\ ~audio.onMessageCallback
    /\ audio' = [audioEnter(audio, "onMessage") EXCEPT !.onMessageCallback = TRUE]
    /\ UNCHANGED <<audioTime, frameRequests>>

AudioOnStatusChange ==
    /\ UNCHANGED audioRest
    /\ channel = "audio"
    /\ Unfed(audio.entry)
    /\ ~audio.onStatusChangeCallback
    /\ audio' = [audioEnter(audio, "onStatusChange") EXCEPT
                    !.onStatusChangeCallback = TRUE]
    /\ UNCHANGED <<audioTime, frameRequests>>

\* startListening(): a fresh AudioContext, whose clock starts at 0, and a
\* request for the first animation frame
StartListening ==
    /\ UNCHANGED audioRest
    /\ channel = "audio"
    /\ ~audio.isListening
    /\ frameRequests.live + frameRequests.stale < MaxFrameRequests
    /\ audio' = updateStatus([audioEnter(audio, "startListening") EXCEPT
                                 !.isListening = TRUE],
                             "listening", "", <<>>)
    /\ audioTime' = 0
    /\ frameRequests' = [frameRequests EXCEPT !.live = @ + 1]

\* stopListening(); the animation frame its session requested stays requested
StopListening ==
    /\ UNCHANGED audioRest
    /\ channel = "audio"
    /\ audio.isListening
    /\ audio' = resetDecodingState(
                    updateStatus([audioEnter(audio, "stopListening") EXCEPT
                                     !.isListening = FALSE],
                                 "stopped", "", <<>>))
    /\ frameRequests' = [live |-> 0, stale |-> frameRequests.stale + frameRequests.live]
    /\ UNCHANGED audioTime

\* a requested animation frame comes: processAudioFrame runs, and requests
\* the next frame unless it returned at once because nothing is listening
ProcessAudioFrame ==
    /\ UNCHANGED audioRest
    /\ channel = "audio"
    /\ \E request \in {"live", "stale"}, frequencyData \in Spectra :
          /\ frameRequests[request] > 0
          /\ audio' = [processAudioFrame(audio, frequencyData, audioTime)
                           EXCEPT !.request = request]
          /\ Len(audio'.symbolBuffer) <= MaxSymbolBuffer
          /\ frameRequests' = IF audio.isListening THEN frameRequests
                              ELSE [frameRequests EXCEPT ![request] = @ - 1]
    /\ UNCHANGED audioTime

AudioTick ==
    /\ UNCHANGED audioRest
    /\ channel = "audio"
    /\ audio.isListening
    /\ \E d \in AudioSteps :
          /\ audioTime + d <= MaxAudioTime
          /\ audioTime' = audioTime + d
    /\ UNCHANGED <<audio, frameRequests>>

AudioNext ==
    \/ AudioOnMessage \/ AudioOnStatusChange \/ StartListening \/ StopListening
    \/ ProcessAudioFrame \/ AudioTick

\* A sender whose tones last one symbolDuration each, one after the other,
\* the first after one symbolDuration of silence, and a decoder whose
\* animation frames come at any instants in between.
MaxToneTime == 15

\* the sender begins a tone when the one before it is over
ToneBegins ==
    /\ UNCHANGED audioRest
    /\ channel = "audio"
    /\ audio.isListening
    /\ audioTime = audio.tone.since + symbolDuration
    /\ audioTime < MaxToneTime
    /\ \E frequencyData \in Spectra :
          audio' = [audioEnter(audio, "tone") EXCEPT
                       !.tone = [frequencyData |-> frequencyData, since |-> audioTime,
                                 decoding |-> audio.isDecoding,
                                 frames |-> 0, added |-> 0]]
    /\ UNCHANGED <<audioTime, frameRequests>>

\* an animation frame comes while the tone lasts: processAudioFrame reads
\* the tone's spectrum and requests the next frame
ToneFrame ==
    /\ UNCHANGED audioRest
    /\ channel = "audio"
    /\ audio.isListening
    /\ audioTime < audio.tone.since + symbolDuration
    /\ audio.tone.frames < symbolDuration
    /\ LET after == processAudioFrame(audio, audio.tone.frequencyData, audioTime)
       IN  audio' = [after EXCEPT
                        !.request = "live",
                        !.tone.frames = @ + 1,
                        !.tone.added = @ + (IF Len(after.symbolBuffer)
                                                   > Len(audio.symbolBuffer)
                                            THEN 1 ELSE 0)]
    /\ UNCHANGED <<audioTime, frameRequests>>

\* the audio clock goes on while the tone lasts
ToneTick ==
    /\ UNCHANGED audioRest
    /\ channel = "audio"
    /\ audio.isListening
    /\ audioTime < audio.tone.since + symbolDuration
    /\ audioTime' = audioTime + 1
    /\ UNCHANGED <<audio, frameRequests>>

ToneNext == StartListening \/ ToneBegins \/ ToneFrame \/ ToneTick

-----------------------------------------------------------------------------
(* capture/frameAnalyzer.js on its own: createFrameAnalyzer fed samples *)

\* State after createFrameAnalyzer().  `returned` is what the last call of
\* analyzeColor returned.  The run fields describe the samples seen since the
\* observed colour last changed: the palette colour of the current run of
\* consecutive in-threshold samples (NoColor after an out-of-threshold
\* sample), how many there were (counted up to samplesRequired), when the run
\* began, whether its colour differed from lastDetectedColor when it began,
\* whether some sample of it came with samplesRequired samples seen and
\* minChangeTime elapsed since lastChangeTime, and how many times
\* analyzeColor returned its colour.
ClassifierState0 ==
    [analyzer |-> AnalyzerInit, entry |-> "none", returned |-> NoColor,
     runColor |-> NoColor, runCount |-> 0, runStart |-> 0, runFresh |-> FALSE,
     runDue |-> FALSE, runReports |-> 0]

\* the run after one more sample, classified as `match`, on which
\* analyzeColor returned `detected`
nextRun(c, match, detected, timestamp) ==
    LET inThreshold == match.distance2 <= threshold * threshold
        sameRun     == inThreshold /\ match.color = c.runColor
        count       == IF ~inThreshold THEN 0
                       ELSE IF sameRun THEN Min(c.runCount + 1, samplesRequired)
                       ELSE 1
        due         == /\ count >= samplesRequired
                       /\ timestamp - c.analyzer.lastChangeTime >= minChangeTime
    IN  [c EXCEPT
           !.runColor   = IF inThreshold THEN match.color ELSE NoColor,
           !.runCount   = count,
           !.runStart   = IF sameRun THEN @ ELSE timestamp,
           !.runFresh   = IF sameRun THEN @
                          ELSE inThreshold /\ match.color # c.analyzer.lastDetectedColor,
           !.runDue     = (sameRun /\ @) \/ due,
           !.runReports = (IF sameRun THEN @ ELSE 0)
                             + (IF detected # NoColor THEN 1 ELSE 0)]

\* analyzer.analyzeColor(rgb, timestamp) called on the analyzer c
classify(c, seen, rgb, timestamp) ==
    [nextRun(c, closestOf[rgb], seen.detected, timestamp) EXCEPT
        !.analyzer = seen.state, !.entry = "analyzeColor", !.returned = seen.detected]

ClassifierInit ==
    /\ classifier = ClassifierState0
    /\ ctime = 0

AnalyzeColor ==
    /\ UNCHANGED classifierRest
    /\ classifier.analyzer.stableColorCount < MaxStable
    /\ \E rgb \in Samples :
          classifier' = classify(classifier, analyzeColor(classifier.analyzer, rgb, ctime),
                                 rgb, ctime)
    /\ UNCHANGED ctime

\* analyzer.reset()
AnalyzerReset ==
    /\ UNCHANGED classifierRest
    /\ classifier.entry = "analyzeColor"
    /\ classifier' = [ClassifierState0 EXCEPT !.entry = "reset"]
    /\ UNCHANGED ctime

ClassifierTick ==
    /\ UNCHANGED classifierRest
    /\ ctime < MaxTime
    /\ ctime' = ctime + 1
    /\ UNCHANGED classifier

ClassifierNext == AnalyzeColor \/ AnalyzerReset \/ ClassifierTick

-----------------------------------------------------------------------------
(* unnamed/part_002: createMessageSequencer and createMessageAssembler *)

\* longest message content, largest maxPayloadSize, and the number of calls
\* of fragmentMessage followed
MaxContentLen == 3
MaxPayloadSize == 2
MaxMessages == 3
\* config.maxSequence
maxSequence == 1

\* the contents sent: the beginnings of two words without a repeated letter
Words == {<<"a", "b", "c", "d", "e">>, <<"v", "w", "x", "y", "z">>}
Contents == {SubSeq(word, 1, length) : word \in Words, length \in 0..MaxContentLen}

\* the message handed to fragmentMessage
Message(content) == [content |-> content, type |-> "text", encoding |-> "text"]

\* null, as returned by addFragment
NoMessage == [isNull |-> TRUE]

\* the loop of fragmentMessage: content.slice(i, i + maxPayloadSize) for
\* i = start, start + maxPayloadSize, ... while i < content.length
RECURSIVE chunksFrom(_, _, _)
chunksFrom(content, i, size) ==
    IF i < Len(content)
    THEN <<slice(content, i, i + size)>> \o chunksFrom(content, i + size, size)
    ELSE <<>>

\* incrementSequence wrapping one number early
incrementSequenceEarlyWrap(q) ==
    [q EXCEPT !.currentSequence = (q.currentSequence + 1) % maxSequence]

incrementSequence(q) ==
    [q EXCEPT !.currentSequence = (q.currentSequence + 1) % (maxSequence + 1)]

\* fragmentMessage(message): the fragments returned and the sequencer after
fragmentMessage(q, message) ==
    LET content == message.content
        chunks  == chunksFrom(content, 0, q.maxPayloadSize)
    IN  IF Len(content) <= q.maxPayloadSize
        THEN [fragments |->
                 << [content |-> content, type |-> message.type,
                     encoding |-> message.encoding,
                     sequenceNumber |-> q.currentSequence, fragmentCount |-> 1,
                     fragmentNumber |-> 0, totalLength |-> Len(content),
                     isFragment |-> FALSE] >>,
              state |-> incrementSequence(q)]
        ELSE [fragments |->
                 [index \in 1..Len(chunks) |->
                     [content |-> chunks[index], type |-> message.type,
                      encoding |-> message.encoding,
                      sequenceNumber |-> q.currentSequence,
                      fragmentCount |-> Len(chunks), fragmentNumber |-> index - 1,
                      totalLength |-> Len(content), isFragment |-> TRUE]],
              state |-> incrementSequence(q)]

\* sequencer.reset()
sequencerReset(q) == [q EXCEPT !.currentSequence = 0]

\* The assembler: `fragments` maps the sequence numbers that have a buffer
\* to [fragments, length, received, type, encoding, totalLength], where the
\* inner `fragments` maps the filled indices of the array to the fragment
\* stored there and `length` is the array's length; `timeouts` is the set of
\* sequence numbers with a pending timer.
NoBuffers == [sequenceNumber \in {} |-> NoMessage]

\* f with key k set to v (Map.set, array element assignment)
set(f, k, v) == [x \in DOMAIN f \cup {k} |-> IF x = k THEN v ELSE f[x]]
\* f without key k (Map.delete)
delete(f, k) == [x \in DOMAIN f \ {k} |-> f[x]]

\* cleanupSequence forgetting the timer but keeping the buffer
cleanupSequenceKeepBuffer(a, sequenceNumber) ==
    [a EXCEPT !.timeouts = @ \ {sequenceNumber}]

\* cleanupSequence(sequenceNumber)
cleanupSequence(a, sequenceNumber) ==
    [a EXCEPT !.fragments = delete(@, sequenceNumber),
              !.timeouts = @ \ {sequenceNumber}]

\* the contents of the filled slots of the array, joined in index order
\* (map skips the holes of the array and join prints them as '')
RECURSIVE joinSlots(_, _, _)
joinSlots(slots, index, length) ==
    IF index >= length THEN <<>>
    ELSE (IF index \in DOMAIN slots THEN slots[index].content ELSE <<>>)
            \o joinSlots(slots, index + 1, length)

\* assembleMessage joining the slots from the last to the first
RECURSIVE joinSlotsBackwards(_, _, _)
joinSlotsBackwards(slots, index, length) ==
    IF index >= length THEN <<>>
    ELSE joinSlotsBackwards(slots, index + 1, length)
            \o (IF index \in DOMAIN slots THEN slots[index].content ELSE <<>>)

assembleMessageBackwards(a, sequenceNumber) ==
    LET fragmentData == a.fragments[sequenceNumber]
    IN  [state |-> cleanupSequence(a, sequenceNumber),
         returned |-> [content |-> joinSlotsBackwards(fragmentData.fragments, 0,
                                                      fragmentData.length),
                       type |-> fragmentData.type, encoding |-> fragmentData.encoding,
                       sequenceNumber |-> sequenceNumber, isFragment |-> FALSE,
                       wasReassembled |-> TRUE]]

\* assembleMessage(sequenceNumber): the message returned and the assembler
\* after
assembleMessage(a, sequenceNumber) ==
    LET fragmentData == a.fragments[sequenceNumber]
    IN  [state |-> cleanupSequence(a, sequenceNumber),
         returned |-> [content |-> joinSlots(fragmentData.fragments, 0,
                                             fragmentData.length),
                       type |-> fragmentData.type, encoding |-> fragmentData.encoding,
                       sequenceNumber |-> sequenceNumber, isFragment |-> FALSE,
                       wasReassembled |-> TRUE]]

\* the buffer allocated at the first sighting of a sequence number
newBuffer(fragment) ==
    [fragments |-> NoBuffers, length |-> fragment.fragmentCount, received |-> 0,
     type |-> fragment.type, encoding |-> fragment.encoding,
     totalLength |-> fragment.totalLength]

\* addFragment from "Add the fragment" on: b is the assembler with a buffer
\* for the fragment's sequence number
storeFragment(b, fragment) ==
    LET sequenceNumber == fragment.sequenceNumber
        stored == [b EXCEPT
                     !.fragments[sequenceNumber].fragments =
                         set(@, fragment.fragmentNumber, fragment),
                     !.fragments[sequenceNumber].length =
                         Max(@, fragment.fragmentNumber + 1),
                     !.fragments[sequenceNumber].received = @ + 1]
    IN  IF fragment.fragmentNumber \in DOMAIN b.fragments[sequenceNumber].fragments
        THEN [state |-> b, returned |-> NoMessage]
        ELSE IF stored.fragments[sequenceNumber].received = fragment.fragmentCount
        THEN assembleMessage(stored, sequenceNumber)
        ELSE [state |-> stored, returned |-> NoMessage]

\* addFragment(fragment): what it returns and the assembler after
addFragment(a, fragment) ==
    IF ~fragment.isFragment
    THEN [state |-> a, returned |-> fragment]
    ELSE IF fragment.sequenceNumber \in DOMAIN a.fragments
    THEN storeFragment(a, fragment)
    ELSE storeFragment([a EXCEPT
                          !.fragments = set(@, fragment.sequenceNumber,
                                            newBuffer(fragment)),
                          !.timeouts = @ \cup {fragment.sequenceNumber}],
                       fragment)

\* assembler.reset()
assemblerReset(a) == [a EXCEPT !.fragments = NoBuffers, !.timeouts = {}]

\* State after createMessageSequencer({maxSequence, maxPayloadSize}) and
\* createMessageAssembler().  `sent` counts the calls of fragmentMessage
\* since construction or the last reset(), `calls` all of them.  The outbox holds the content and
\* the fragments of the last call, its ordinal among the calls, the indices
\* of the fragments not handed to addFragment yet, and whether the delivery
\* is undisturbed so far: the assembler had no buffer for the sequence
\* number when fragmentMessage returned, and since then no fragment was
\* lost or delivered twice, no timer of the assembler fired and the
\* assembler was not reset; `expired` holds the indices of its fragments that
\* a timer of the assembler deleted with their buffer and that have not
\* arrived again since.  The assembler records its last call in `entry`,
\* the fragment it was given in `given` and what it returned in `returned`.
Sequencer0(size) ==
    [currentSequence |-> 0, maxPayloadSize |-> size, sent |-> 0, calls |-> 0]
Outbox0 == [content |-> <<>>, fragments |-> <<>>, ordinal |-> 0, pending |-> {},
            undisturbed |-> FALSE, expired |-> {}]
Assembler0 == [fragments |-> NoBuffers, timeouts |-> {}, entry |-> "none",
               given |-> NoMessage, returned |-> NoMessage]

FragmentInit ==
    /\ \E size \in 1..MaxPayloadSize : sequencer = Sequencer0(size)
    /\ outbox = Outbox0
    /\ assembler = Assembler0

\* the caller's record of one fragmentMessage call
sentBy(call, content, ordinal, a) ==
    [content |-> content, fragments |-> call.fragments, ordinal |-> ordinal,
     pending |-> 1..Len(call.fragments),
     undisturbed |-> call.fragments[1].sequenceNumber \notin DOMAIN a.fragments,
     expired |-> {}]

FragmentMessage ==
    /\ UNCHANGED fragmentRest
    /\ sequencer.calls < MaxMessages
    /\ \E content \in Contents :
          LET call == fragmentMessage(sequencer, Message(content))
          IN  /\ sequencer' = [call.state EXCEPT !.sent = @ + 1, !.calls = @ + 1]
              /\ outbox' = sentBy(call, content, sequencer.sent + 1, assembler)
    /\ UNCHANGED assembler

SequencerReset ==
    /\ UNCHANGED fragmentRest
    /\ sequencer.sent > 0
    /\ sequencer' = [sequencerReset(sequencer) EXCEPT !.sent = 0]
    /\ UNCHANGED <<outbox, assembler>>

\* the assembler after addFragment(fragment) returned `call`
calledWith(fragment, call) ==
    [call.state EXCEPT
        !.entry = "addFragment", !.given = fragment, !.returned = call.returned]

\* a fragment of the outbox arrives: the receiver calls addFragment
AddFragment ==
    /\ UNCHANGED fragmentRest
    /\ \E index \in outbox.pending :
          /\ assembler' = calledWith(outbox.fragments[index],
                                      addFragment(assembler, outbox.fragments[index]))
          /\ outbox' = [outbox EXCEPT !.pending = @ \ {index}]
    /\ UNCHANGED sequencer

\* a fragment that was delivered already arrives once more
AddFragmentAgain ==
    /\ UNCHANGED fragmentRest
    /\ \E index \in (1..Len(outbox.fragments)) \ outbox.pending :
          /\ assembler' = calledWith(outbox.fragments[index],
                                      addFragment(assembler, outbox.fragments[index]))
          /\ outbox' = [outbox EXCEPT !.undisturbed = FALSE,
                                      !.expired = @ \ {index}]
    /\ UNCHANGED sequencer

\* a fragment of the outbox is lost on the way
LoseFragment ==
    /\ UNCHANGED fragmentRest
    /\ \E index \in outbox.pending :
          outbox' = [outbox EXCEPT !.pending = @ \ {index}, !.undisturbed = FALSE]
    /\ UNCHANGED <<sequencer, assembler>>

\* the fragments of the outbox that were delivered and that the buffer of a
\* sequence number holds
heldOf(a, sequenceNumber, sent, pending) ==
    {index \in (1..Len(sent)) \ pending :
        /\ sequenceNumber \in DOMAIN a.fragments
        /\ index - 1 \in DOMAIN a.fragments[sequenceNumber].fragments
        /\ a.fragments[sequenceNumber].fragments[index - 1] = sent[index]}

\* the timer set by addFragment fires: cleanupSequence(sequenceNumber)
AssemblyTimeout ==
    /\ UNCHANGED fragmentRest
    /\ \E sequenceNumber \in assembler.timeouts :
          /\ assembler' = [cleanupSequence(assembler, sequenceNumber) EXCEPT
                               !.entry = "timeout", !.given = NoMessage,
                               !.returned = NoMessage]
          /\ outbox' = [outbox EXCEPT
                            !.undisturbed = FALSE,
                            !.expired = @ \cup heldOf(assembler, sequenceNumber,
                                                     outbox.fragments,
                                                     outbox.pending)]
    /\ UNCHANGED sequencer

AssemblerReset ==
    /\ UNCHANGED fragmentRest
    /\ assembler.entry # "reset"
    /\ assembler' = [assemblerReset(assembler) EXCEPT
                        !.entry = "reset", !.given = NoMessage,
                        !.returned = NoMessage]
    /\ outbox' = [outbox EXCEPT !.undisturbed = FALSE]
    /\ UNCHANGED sequencer

FragmentNext ==
    \/ FragmentMessage \/ SequencerReset \/ AddFragment \/ AddFragmentAgain
    \/ LoseFragment \/ AssemblyTimeout \/ AssemblerReset

-----------------------------------------------------------------------------
(* network/networkManager.js: createNetworkManager *)

\* config.peerId, the nodes whose messages reach this node's transport, and
\* a node out of reach
Self == "A"
Neighbours == {"B", "C"}
Remote == "D"
Nodes == {Self, Remote} \cup Neighbours
\* the order in which a loop over the peers visits them
NodeOrder == <<"A", "B", "C", "D">>

\* the 5000 ms of updateRoute, config.routeTimeout (30000 ms) and the
\* 60000 ms of the message cache in whole time units of 30 s ("more than
\* 5000 ms later" is "more than 0 units later"); the last value of Date.now()
\* followed; the messages processed besides the neighbours' own discovery
\* broadcasts, a route message counting 1 and any other message 2
refreshWindow == 0
routeTimeout == 1
cacheLifetime == 2
MaxNetTime == 3
MaxProcessed == 2

\* MessageType
DISCOVERY == "discovery"
DISCOVERY_RESPONSE == "discovery_response"
ROUTE == "route"
DATA == "data"
ACK == "ack"

\* ttl of the discovery messages and of the route messages this node creates
discoveryTtl == 3
routeTtl == 2

\* an absent (undefined) field of a message
None == "none"
\* the ids uuidv4() gives the messages created by each node
uuid == [A |-> "uuid-A", B |-> "uuid-B", C |-> "uuid-C", D |-> "uuid-D"]
\* the ids of the route messages received, by their hop count, and the id
\* of the other messages received
routeIds == <<"r1", "r2">>
messageId == "m1"

\* A message: the fields the manager reads or writes.  route.destination and
\* route.hopCount are `destination` and `hopCount`; absent numbers are 0.
Msg(type, id, sender) ==
    [type |-> type, id |-> id, sender |-> sender, receiver |-> None, ttl |-> 0,
     destination |-> None, hopCount |-> 0, originalSender |-> None,
     finalDestination |-> None, routed |-> FALSE, requireAck |-> FALSE,
     referencedMessageId |-> None]

\* peer.directlyConnected, undefined (falsy) in a record made from a data
\* message
directlyConnected(peer) ==
    "directlyConnected" \in DOMAIN peer /\ peer.directlyConnected

\* the ids uuidv4() gives the managers of a mesh, in the order it gives them;
\* a single manager (nextUuid = uuid[peerId]) keeps one id for all the
\* messages it creates
uuids == [A |-> <<"A1", "A2", "A3", "A4", "A5", "A6", "A7", "A8">>,
          B |-> <<"B1", "B2", "B3", "B4", "B5", "B6", "B7", "B8">>,
          C |-> <<"C1", "C2", "C3", "C4", "C5", "C6", "C7", "C8">>]
following(id) ==
    IF \E p \in DOMAIN uuids : \E i \in 1..(Len(uuids[p]) - 1) : uuids[p][i] = id
    THEN LET p == CHOOSE p \in DOMAIN uuids : \E i \in 1..Len(uuids[p]) : uuids[p][i] = id
             i == CHOOSE i \in 1..Len(uuids[p]) : uuids[p][i] = id
         IN  uuids[p][i + 1]
    ELSE id

\* sendDirectMessage: if (!message.id) message.id = uuidv4().  The message
\* object keeps the id, so the next send of the same object carries it.
stamped(n, message) ==
    IF message.id = None THEN [message EXCEPT !.id = n.nextUuid] ELSE message

\* sendDirectMessage(message, peerId): the transport function is taken not to
\* throw
sendDirectMessage(n, message, peerId) ==
    [state |-> [n EXCEPT !.out = Append(@,
                    [to |-> peerId,
                     message |-> stamped(n, message)]),
                !.nextUuid = IF message.id = None THEN following(@) ELSE @],
     returned |-> TRUE]

\* sendMessage sending a routed message as it is
sendMessageUnwrapped(n, message, destinationId) ==
    IF destinationId \in DOMAIN n.peers /\ directlyConnected(n.peers[destinationId])
    THEN sendDirectMessage(n, message, destinationId)
    ELSE IF destinationId \in DOMAIN n.routes
    THEN sendDirectMessage(n, message, n.routes[destinationId].nextHop)
    ELSE [state |-> n, returned |-> FALSE]

\* sendMessage(message, destinationId): the manager after and the value
\* returned
sendMessage(n, message, destinationId) ==
    IF destinationId \in DOMAIN n.peers /\ directlyConnected(n.peers[destinationId])
    THEN sendDirectMessage(n, message, destinationId)
    ELSE IF destinationId \in DOMAIN n.routes
    THEN sendDirectMessage(n,
            [message EXCEPT
                !.originalSender = IF message.sender # None THEN message.sender
                                   ELSE n.peerId,
                !.sender = n.peerId,
                !.finalDestination = destinationId,
                !.routed = TRUE],
            n.routes[destinationId].nextHop)
    ELSE [state |-> n, returned |-> FALSE]

\* the directly connected peers other than `except`, in loop order
directPeers(n, except) ==
    SelectSeq(NodeOrder, LAMBDA peerId :
        /\ peerId \in DOMAIN n.peers
        /\ peerId # except
        /\ directlyConnected(n.peers[peerId]))

\* for each peerId of ids: sendMessage(message, peerId)
RECURSIVE sendEach(_, _, _)
sendEach(n, message, ids) ==
    IF ids = <<>> THEN n
    ELSE sendEach(sendMessage(n, message, Head(ids)).state, stamped(n, message),
                  Tail(ids))

\* broadcastMessage(message)
broadcastMessage(n, message) == sendEach(n, message, directPeers(n, None))

\* broadcastDiscovery()
broadcastDiscovery(n) ==
    broadcastMessage(n, [Msg(DISCOVERY, None, n.peerId) EXCEPT !.ttl = discoveryTtl])

\* updatePeer(peerId, info): {...existing, ...info, id: peerId}
updatePeer(n, peerId, info) ==
    LET isNewPeer == peerId \notin DOMAIN n.peers
        record    == IF isNewPeer THEN [id |-> peerId] @@ info
                     ELSE [id |-> peerId] @@ info @@ n.peers[peerId]
    IN  [n EXCEPT !.peers = set(@, peerId, record),
                  !.events = IF isNewPeer
                             THEN Append(@, [name |-> "onPeerDiscovered",
                                             subject |-> peerId])
                             ELSE @]

\* broadcastRoute(destination, hopCount)
broadcastRoute(n, destination, hopCount) ==
    broadcastMessage(n, [Msg(ROUTE, None, n.peerId) EXCEPT
                            !.ttl = routeTtl, !.destination = destination,
                            !.hopCount = hopCount + 1])

\* updateRoute from routes.set on
replaceRoute(n, destination, nextHop, hopCount, clock) ==
    [broadcastRoute([n EXCEPT !.routes = set(@, destination,
                                    [nextHop |-> nextHop, hopCount |-> hopCount,
                                     timestamp |-> clock])],
                    destination, hopCount)
     EXCEPT !.events = Append(@, [name |-> "onRouteChanged",
                                  subject |-> destination,
                                  nextHop |-> nextHop, hopCount |-> hopCount])]

\* shouldUpdate of updateRoute also replacing a route by a longer one
shouldUpdateAlways(routes, destination, hopCount, clock) == TRUE

\* shouldUpdate of updateRoute
shouldUpdate(routes, destination, hopCount, clock) ==
    \/ destination \notin DOMAIN routes
    \/ hopCount < routes[destination].hopCount
    \/ /\ hopCount = routes[destination].hopCount
       /\ clock - routes[destination].timestamp > refreshWindow

\* updateRoute(destination, nextHop, hopCount)
updateRoute(n, destination, nextHop, hopCount, clock) ==
    IF destination = n.peerId THEN n
    ELSE IF shouldUpdate(n.routes, destination, hopCount, clock)
    THEN replaceRoute(n, destination, nextHop, hopCount, clock)
    ELSE n

\* the relay loop of handleDiscovery and handleRoute sending to every peer
\* of the table
relayToAll(n, message, receivedFrom) ==
    IF message.ttl > 1
    THEN sendEach(n, [message EXCEPT !.ttl = @ - 1], directPeers(n, None))
    ELSE n

\* the relay loop of handleDiscovery and handleRoute
relay(n, message, receivedFrom) ==
    IF message.ttl > 1
    THEN sendEach(n, [message EXCEPT !.ttl = @ - 1], directPeers(n, receivedFrom))
    ELSE n

\* handleRoute(message, receivedFrom)
handleRoute(n, message, receivedFrom, clock) ==
    relay(updateRoute(n, message.destination, receivedFrom, message.hopCount, clock),
          message, receivedFrom)

\* handleDiscovery answering a discovery response as well
respondAlways(n, message) ==
    sendMessage(n, [Msg(DISCOVERY_RESPONSE, None, n.peerId) EXCEPT
                       !.receiver = message.sender, !.ttl = discoveryTtl],
                message.sender).state

\* handleDiscovery: the response, sent when the message is a DISCOVERY
respond(n, message) ==
    IF message.type = DISCOVERY
    THEN sendMessage(n, [Msg(DISCOVERY_RESPONSE, None, n.peerId) EXCEPT
                            !.receiver = message.sender, !.ttl = discoveryTtl],
                     message.sender).state
    ELSE n

\* handleDiscovery: the relay, made when the message is a DISCOVERY
relayDiscovery(n, message, receivedFrom) ==
    IF message.type = DISCOVERY THEN relay(n, message, receivedFrom) ELSE n

\* handleDiscovery(message, receivedFrom)
handleDiscovery(n, message, receivedFrom, clock) ==
    IF message.sender = n.peerId THEN n
    ELSE updateRoute(
            relayDiscovery(
                respond(updatePeer(n, message.sender,
                                   [lastSeen |-> clock,
                                    directlyConnected |-> receivedFrom = message.sender]),
                        message),
                message, receivedFrom),
            message.sender, receivedFrom, 1, clock)

\* relayMessage(message)
relayMessage(n, message) ==
    IF message.finalDestination \in DOMAIN n.routes
    THEN sendDirectMessage(n, message, n.routes[message.finalDestination].nextHop).state
    ELSE n

\* message.originalSender || message.sender
originOf(message) ==
    IF message.originalSender # None THEN message.originalSender ELSE message.sender

\* sendAcknowledgment(message)
sendAcknowledgment(n, message) ==
    sendMessage(n, [Msg(ACK, None, n.peerId) EXCEPT !.referencedMessageId = message.id],
                originOf(message)).state

\* handleDataMessage from the delivery to the application on
deliver(n, message) ==
    IF message.requireAck
    THEN sendAcknowledgment(
            [n EXCEPT !.events = Append(@, [name |-> "onMessageReceived",
                                            subject |-> originOf(message),
                                            message |-> message])],
            message)
    ELSE [n EXCEPT !.events = Append(@, [name |-> "onMessageReceived",
                                         subject |-> originOf(message),
                                         message |-> message])]

\* handleDataMessage handing a relayed message to the application as well
handleDataMessageAndDeliver(n, message, receivedFrom, clock) ==
    IF message.routed /\ message.finalDestination # None
          /\ message.finalDestination # n.peerId
    THEN deliver(relayMessage(n, message), message)
    ELSE deliver(updatePeer(n, originOf(message), [lastSeen |-> clock]), message)

\* handleDataMessage(message, receivedFrom)
handleDataMessage(n, message, receivedFrom, clock) ==
    IF message.routed /\ message.finalDestination # None
          /\ message.finalDestination # n.peerId
    THEN relayMessage(n, message)
    ELSE deliver(updatePeer(n, originOf(message), [lastSeen |-> clock]), message)

\* handleAcknowledgment(message)
handleAcknowledgment(n, message) == n

\* the switch of processMessage
dispatch(n, message, receivedFrom, clock) ==
    CASE message.type \in {DISCOVERY, DISCOVERY_RESPONSE} ->
            handleDiscovery(n, message, receivedFrom, clock)
      [] message.type = ROUTE -> handleRoute(n, message, receivedFrom, clock)
      [] message.type = DATA -> handleDataMessage(n, message, receivedFrom, clock)
      [] message.type = ACK -> handleAcknowledgment(n, message)
      [] OTHER -> handleDataMessage(n, message, receivedFrom, clock)

\* processMessage without the check of the message cache
processMessageAgain(n, message, receivedFrom, clock) ==
    IF message.id # None
    THEN dispatch([n EXCEPT !.messageCache = set(@, message.id,
                                [timestamp |-> clock, receivedFrom |-> receivedFrom])],
                  message, receivedFrom, clock)
    ELSE dispatch(n, message, receivedFrom, clock)

\* processMessage(message, receivedFrom)
processMessage(n, message, receivedFrom, clock) ==
    IF message.id # None /\ message.id \in DOMAIN n.messageCache
    THEN n
    ELSE IF message.id # None
    THEN dispatch([n EXCEPT !.messageCache = set(@, message.id,
                                [timestamp |-> clock, receivedFrom |-> receivedFrom])],
                  message, receivedFrom, clock)
    ELSE dispatch(n, message, receivedFrom, clock)

\* f restricted to the keys in keep
restrict(f, keep) == [x \in keep |-> f[x]]

\* null and Infinity, as cleanupStaleEntries passes them to onRouteChanged
Null == "null"
Infinity == "Infinity"

\* the argument of a callback of cleanupStaleEntries: onPeerLost gets the
\* deleted peer, onRouteChanged a route without next hop
lostEvent(name, id) ==
    IF name = "onRouteChanged"
    THEN [name |-> name, subject |-> id, nextHop |-> Null, hopCount |-> Infinity]
    ELSE [name |-> name, subject |-> id]

\* the callbacks of cleanupStaleEntries for the peers and routes in the
\* sequence ids that are deleted
RECURSIVE lostEvents(_, _, _)
lostEvents(name, ids, lost) ==
    IF ids = <<>> THEN <<>>
    ELSE (IF Head(ids) \in lost THEN <<lostEvent(name, Head(ids))>> ELSE <<>>)
            \o lostEvents(name, Tail(ids), lost)

\* cleanupStaleEntries() deleting what is as old as the timeout too
cleanupStaleEntriesInclusive(n, clock) ==
    LET stalePeers  == {p \in DOMAIN n.peers : clock - n.peers[p].lastSeen >= routeTimeout}
        staleRoutes == {d \in DOMAIN n.routes :
                           clock - n.routes[d].timestamp >= routeTimeout}
        staleIds    == {i \in DOMAIN n.messageCache :
                           clock - n.messageCache[i].timestamp >= cacheLifetime}
    IN  [n EXCEPT
           !.peers = restrict(@, DOMAIN @ \ stalePeers),
           !.routes = restrict(@, DOMAIN @ \ staleRoutes),
           !.messageCache = restrict(@, DOMAIN @ \ staleIds),
           !.events = @ \o lostEvents("onPeerLost", NodeOrder, stalePeers)
                        \o lostEvents("onRouteChanged", NodeOrder, staleRoutes)]

\* cleanupStaleEntries()
cleanupStaleEntries(n, clock) ==
    LET stalePeers  == {p \in DOMAIN n.peers : clock - n.peers[p].lastSeen > routeTimeout}
        staleRoutes == {d \in DOMAIN n.routes :
                           clock - n.routes[d].timestamp > routeTimeout}
        staleIds    == {i \in DOMAIN n.messageCache :
                           clock - n.messageCache[i].timestamp > cacheLifetime}
    IN  [n EXCEPT
           !.peers = restrict(@, DOMAIN @ \ stalePeers),
           !.routes = restrict(@, DOMAIN @ \ staleRoutes),
           !.messageCache = restrict(@, DOMAIN @ \ staleIds),
           !.events = @ \o lostEvents("onPeerLost", NodeOrder, stalePeers)
                        \o lostEvents("onRouteChanged", NodeOrder, staleRoutes)]

\* State after createNetworkManager({peerId: Self}): init() has started the
\* timers and broadcast a discovery to no peer.  `out` lists what the last
\* call handed to config.sendMessage and `events` the callbacks it made, each
\* with its name and the peer or destination it is about;
\* `entry` names the call, `message`, `receivedFrom` and `destinationId` are
\* its arguments and `returned` is what sendMessage returned.  `processed`
\* counts the messages processed other than neighbours' own discovery
\* broadcasts (a route message as 1, any other as 2), and `dispatchedAt` gives, for each message id, when a message
\* with that id last went through the switch of processMessage.
\* `discoveryTimer` and `cleanupTimer` tell whether the interval timer is set.
\* `peerId` is config.peerId and `nextUuid` the id uuidv4() gives next.
NoMap == [x \in {} |-> None]
Network0 ==
    [peers |-> NoMap, routes |-> NoMap, messageCache |-> NoMap,
     out |-> <<>>, events |-> <<>>,
     entry |-> "init", message |-> Msg(None, None, None), receivedFrom |-> None,
     destinationId |-> None, returned |-> FALSE, processed |-> 0,
     dispatchedAt |-> NoMap, discoveryTimer |-> TRUE, cleanupTimer |-> TRUE,
     peerId |-> Self, nextUuid |-> uuid[Self]]

NetworkInit ==
    /\ net = Network0
    /\ netTime = 0

\* the manager as a call finds it: nothing sent, no callback made yet
called(n, entry, message, receivedFrom, destinationId) ==
    [n EXCEPT !.out = <<>>, !.events = <<>>, !.entry = entry, !.message = message,
              !.receivedFrom = receivedFrom, !.destinationId = destinationId,
              !.returned = FALSE]

\* the record of a processMessage call: the count of processed messages and
\* the time of the dispatch
processedBy(n, before, message, counted, clock) ==
    [n EXCEPT
        !.processed = @ + counted,
        !.dispatchedAt = IF message.id # None /\ message.id \notin DOMAIN before
                         THEN set(@, message.id, clock) ELSE @]

\* The messages a neighbour sends or relays to this node (all carry an id,
\* as every message sent through sendDirectMessage does): discoveries and
\* discovery responses of this node, of the neighbour and of the remote
\* node; route messages to the other neighbour or the remote node; data
\* messages sent directly, data messages routed by sendMessage at their
\* origin, and acknowledgments.
ControlMessages(receivedFrom) ==
    {[Msg(type, messageId, sender) EXCEPT !.ttl = ttl] :
        type \in {DISCOVERY, DISCOVERY_RESPONSE},
        sender \in {Self, "B", Remote}, ttl \in 1..2}
RouteMessages(receivedFrom) ==
    {[Msg(ROUTE, routeIds[hopCount], receivedFrom) EXCEPT
         !.ttl = ttl, !.destination = destination, !.hopCount = hopCount] :
        ttl \in 1..2, destination \in {"C", Remote}, hopCount \in 1..2}
DataMessages(receivedFrom) ==
    {[Msg(DATA, messageId, receivedFrom) EXCEPT !.requireAck = requireAck] :
        requireAck \in BOOLEAN}
    \cup
    {[Msg(DATA, messageId, origin) EXCEPT
         !.originalSender = origin, !.finalDestination = destination.to,
         !.routed = TRUE, !.requireAck = destination.requireAck] :
        origin \in {"B", Remote},
        destination \in {[to |-> Self, requireAck |-> TRUE],
                         [to |-> Self, requireAck |-> FALSE],
                         [to |-> "C", requireAck |-> FALSE],
                         [to |-> Remote, requireAck |-> FALSE]}}
    \cup {Msg(ACK, messageId, receivedFrom)}

\* a neighbour's own discovery broadcast reaches this node
HearNeighbour ==
    /\ UNCHANGED networkRest
    /\ \E neighbour \in Neighbours :
          LET message == [Msg(DISCOVERY, uuid[neighbour], neighbour) EXCEPT
                             !.ttl = discoveryTtl]
          IN  net' = processedBy(
                        processMessage(called(net, "processMessage", message,
                                              neighbour, None),
                                       message, neighbour, netTime),
                        net.messageCache, message, 0, netTime)
    /\ UNCHANGED netTime

\* a neighbour's own discovery broadcast as the neighbour sends it and as the
\* other neighbour relays it: the same id, one hop less to live
Broadcast(originator) ==
    [Msg(DISCOVERY, uuid[originator], originator) EXCEPT !.ttl = discoveryTtl]
Relayed(message) == [message EXCEPT !.ttl = @ - 1]

\* a neighbour's discovery broadcast reaches this node through the other
\* neighbour
HearRelayed ==
    /\ UNCHANGED networkRest
    /\ \E originator \in Neighbours, relayer \in Neighbours :
          /\ originator # relayer
          /\ LET message == Relayed(Broadcast(originator))
             IN  net' = processedBy(
                           processMessage(called(net, "processMessage", message,
                                                 relayer, None),
                                          message, relayer, netTime),
                           net.messageCache, message, 0, netTime)
    /\ UNCHANGED netTime

\* A data message on its way round a forwarding cycle: C routes it to this
\* node, for the remote node or for this node.
Circulating(finalDestination) ==
    [Msg(DATA, messageId, "C") EXCEPT
        !.originalSender = "C", !.finalDestination = finalDestination, !.routed = TRUE]

\* the transport hands the circulating message to this node, once more
ProcessCirculating ==
    /\ UNCHANGED networkRest
    /\ \E finalDestination \in {Remote, Self} :
          LET message == Circulating(finalDestination)
          IN  net' = processedBy(
                        processMessage(called(net, "processMessage", message, "C", None),
                                       message, "C", netTime),
                        net.messageCache, message, 0, netTime)
    /\ UNCHANGED netTime

\* a discovery message that was relayed, or a discovery response
ProcessControl ==
    /\ UNCHANGED networkRest
    /\ net.processed + 2 <= MaxProcessed
    /\ \E receivedFrom \in Neighbours : \E message \in ControlMessages(receivedFrom) :
          net' = processedBy(
                    processMessage(called(net, "processMessage", message,
                                          receivedFrom, None),
                                   message, receivedFrom, netTime),
                    net.messageCache, message, 2, netTime)
    /\ UNCHANGED netTime

ProcessRoute ==
    /\ UNCHANGED networkRest
    /\ net.processed + 1 <= MaxProcessed
    /\ \E receivedFrom \in Neighbours : \E message \in RouteMessages(receivedFrom) :
          net' = processedBy(
                    processMessage(called(net, "processMessage", message,
                                          receivedFrom, None),
                                   message, receivedFrom, netTime),
                    net.messageCache, message, 1, netTime)
    /\ UNCHANGED netTime

ProcessData ==
    /\ UNCHANGED networkRest
    /\ net.processed + 2 <= MaxProcessed
    /\ \E receivedFrom \in Neighbours : \E message \in DataMessages(receivedFrom) :
          net' = processedBy(
                    processMessage(called(net, "processMessage", message,
                                          receivedFrom, None),
                                   message, receivedFrom, netTime),
                    net.messageCache, message, 2, netTime)
    /\ UNCHANGED netTime

\* the result of a sendMessage call by the application
sent(call) == [call.state EXCEPT !.returned = call.returned]

\* the application calls sendMessage(message, destinationId)
SendMessage ==
    /\ UNCHANGED networkRest
    /\ \E destinationId \in Nodes :
          net' = sent(sendMessage(called(net, "sendMessage", Msg(DATA, None, None),
                                         None, destinationId),
                                  Msg(DATA, None, None), destinationId))
    /\ UNCHANGED netTime

\* the discovery timer
BroadcastDiscovery ==
    /\ UNCHANGED networkRest
    /\ net.discoveryTimer
    /\ net.entry # "broadcastDiscovery"
    /\ net' = broadcastDiscovery(called(net, "broadcastDiscovery",
                                        Msg(None, None, None), None, None))
    /\ UNCHANGED netTime

\* the cleanup timer
CleanupStaleEntries ==
    /\ UNCHANGED networkRest
    /\ net.cleanupTimer
    /\ net.entry # "cleanupStaleEntries"
    /\ net' = cleanupStaleEntries(called(net, "cleanupStaleEntries",
                                         Msg(None, None, None), None, None),
                                  netTime)
    /\ UNCHANGED netTime

NetTick ==
    /\ UNCHANGED networkRest
    /\ netTime < MaxNetTime
    /\ netTime' = netTime + 1
    /\ UNCHANGED net

NetworkNext ==
    \/ HearNeighbour \/ ProcessControl \/ ProcessRoute \/ ProcessData
    \/ SendMessage \/ BroadcastDiscovery \/ CleanupStaleEntries \/ NetTick

\* stop()
stop(n) ==
    [n EXCEPT !.discoveryTimer = FALSE, !.cleanupTimer = FALSE,
              !.peers = NoMap, !.routes = NoMap, !.messageCache = NoMap]

\* the application calls stop(); the transport and the application keep the
\* manager they were given, so processMessage and sendMessage stay callable
Stop ==
    /\ UNCHANGED networkRest
    /\ net.entry # "stop"
    /\ net' = stop(called(net, "stop", Msg(None, None, None), None, None))
    /\ UNCHANGED netTime

-----------------------------------------------------------------------------
(* Several managers joined by a transport *)

\* The managers of a mesh and the pairs of them that see each other.
MeshNodes == {"A", "B", "C"}
Line == {{"A", "B"}, {"B", "C"}}
Triangle == Line \cup {{"A", "C"}}
Topologies == {Line, Triangle}
linked(links, p) == {q \in MeshNodes \ {p} : {p, q} \in links}

\* the discovery broadcasts of the run, and the values of Date.now() during
\* it: the time at which the routes of Manager0 were stored, when
\* updateRoute leaves a route of the same length alone, or a later time,
\* when it replaces the route and advertises it
MaxBroadcasts == 1
\* the most calls of config.sendMessage one discovery broadcast leads to in
\* a line or a triangle of three managers with fresh routes or a line with
\* old ones
MaxTraffic == 16
MeshClocks == {0, refreshWindow + 1}

\* createNetworkManager({peerId: p}) after the manager heard the first
\* discovery broadcast of each of its neighbours directly (updatePeer and
\* updateRoute of handleDiscovery) and the cache entries of that time were
\* purged
Manager0(p, neighbours) ==
    [Network0 EXCEPT
        !.peerId = p, !.nextUuid = uuids[p][1],
        !.peers = [q \in neighbours |->
                      [id |-> q, lastSeen |-> 0, directlyConnected |-> TRUE]],
        !.routes = [q \in neighbours |->
                       [nextHop |-> q, hopCount |-> 1, timestamp |-> 0]]]

\* `links` are the pairs of managers that see each other,
\* `flight` holds what config.sendMessage was given and the transport has not
\* handed to processMessage of the receiver yet, `sent` counts the calls of
\* config.sendMessage and `broadcasts` the runs of a discovery timer
Mesh0(links, clock) ==
    [managers |-> [p \in MeshNodes |-> Manager0(p, linked(links, p))],
     flight |-> {}, sent |-> 0, broadcasts |-> 0, clock |-> clock,
     links |-> links,
     \* the managers that started with empty tables
     newcomers |-> {},
     \* the calls of sendMessage by the applications, and the
     \* acknowledgments the transport handed to processMessage
     sends |-> 0, acks |-> {}]

MeshInit == mesh = Mesh0(Line, 0)

\* what a call of manager p handed to the transport
handed(n) == {[from |-> n.peerId, to |-> n.out[i].to, message |-> n.out[i].message] :
                 i \in 1..Len(n.out)}

\* the mesh after a call of manager p that left the manager as n: the
\* transport has what the call sent, and the record of the call is dropped
after(m, p, n, flight) ==
    [m EXCEPT !.managers[p] = called(n, "none", Msg(None, None, None), None, None),
              !.flight = flight \cup handed(n),
              !.sent = @ + Len(n.out)]

\* the discovery timer of a manager
MeshBroadcast ==
    /\ UNCHANGED meshRest
    /\ mesh.broadcasts < MaxBroadcasts
    /\ \E p \in MeshNodes :
          mesh' = [after(mesh, p,
                         broadcastDiscovery(called(mesh.managers[p], "broadcastDiscovery",
                                                   Msg(None, None, None), None, None)),
                         mesh.flight)
                   EXCEPT !.broadcasts = @ + 1]

\* the transport hands a message to processMessage of its receiver
MeshDeliver ==
    /\ UNCHANGED meshRest
    /\ \E f \in mesh.flight :
          mesh' = [after(mesh, f.to,
                         processMessage(called(mesh.managers[f.to], "processMessage",
                                               f.message, f.from, None),
                                        f.message, f.from, mesh.clock),
                         mesh.flight \ {f})
                   EXCEPT !.acks = IF f.message.type = ACK THEN @ \cup {f} ELSE @]

\* one discovery broadcast and the traffic it causes, no timer running after
\* it
DiscoveryNext == MeshBroadcast \/ MeshDeliver

\* the line A - B - C after the routes have spread: every manager has its
\* neighbours as peers and a route to every other manager, the two ends
\* through B
Routed ==
    [Mesh0(Line, 0) EXCEPT
        !.managers = [p \in MeshNodes |->
            [Manager0(p, linked(Line, p)) EXCEPT
                !.routes = [q \in MeshNodes \ {p} |->
                               IF q \in linked(Line, p)
                               THEN [nextHop |-> q, hopCount |-> 1, timestamp |-> 0]
                               ELSE [nextHop |-> "B", hopCount |-> 2, timestamp |-> 0]]]]]

\* the data messages the applications send
MaxSends == 2

\* the application of a manager sends a data message to another manager,
\* asking for an acknowledgment or not
MeshSend ==
    /\ UNCHANGED meshRest
    /\ mesh.sends < MaxSends
    /\ \E p \in MeshNodes, destinationId \in MeshNodes, requireAck \in BOOLEAN :
          /\ destinationId # p
          /\ mesh' = [after(mesh, p,
                            sendMessage(called(mesh.managers[p], "sendMessage",
                                               Msg(DATA, None, p), None, destinationId),
                                        [Msg(DATA, None, p) EXCEPT
                                            !.requireAck = requireAck],
                                        destinationId).state,
                            mesh.flight)
                      EXCEPT !.sends = @ + 1]

\* data messages and their acknowledgments on their way
AckNext == MeshSend \/ MeshDeliver

\* a line of managers of which those of `newcomers` were just created and
\* initialised, with empty tables, while the others have heard all their
\* neighbours
Joining(newcomers) ==
    [Mesh0(Line, 0) EXCEPT
        !.managers = [p \in MeshNodes |->
                         IF p \in newcomers THEN Manager0(p, {})
                         ELSE Manager0(p, linked(Line, p))],
        !.newcomers = newcomers]

\* the manager with its whole public interface, stop() included
StopNext == NetworkNext \/ Stop

\* a node of a forwarding cycle: route messages set and refresh its routes,
\* the message comes round, the cleanup timer runs
CycleNext == ProcessRoute \/ ProcessCirculating \/ CleanupStaleEntries \/ NetTick

\* the discovery broadcasts of the neighbours arriving directly and relayed,
\* in any order, with the two timers of this node
ReorderNext ==
    \/ HearNeighbour \/ HearRelayed \/ BroadcastDiscovery \/ CleanupStaleEntries
    \/ NetTick

-----------------------------------------------------------------------------
(* unnamed/part_003: createModeController                                  *)
(*                                                                         *)
(* Rates and signal-to-noise ratios are integers; an error rate and a      *)
(* reliability are kept in hundredths (0.95 is 95), so that a score        *)
(* maxRate * reliability is kept in hundredths too.  The metrics the       *)
(* model hands to updateChannelQuality are values for which the products   *)
(* of updateMaxRates are exact in binary floating point.  lastUpdate is    *)
(* written and never read by the controller; it is left out.               *)

TransmissionMode == [VISUAL |-> "visual", AUDIO |-> "audio", BOTH |-> "both"]

\* Object.values(TransmissionMode), Object.keys(capabilities): insertion order
ModeOrder == <<TransmissionMode.VISUAL, TransmissionMode.AUDIO, TransmissionMode.BOTH>>
Modes == {ModeOrder[i] : i \in 1..Len(ModeOrder)}

\* metrics handed to updateChannelQuality: snr in dB, errorRate in hundredths
Snrs == {5, 15, 30}
ErrorRates == {0, 25, 50}

\* setMode without the availability check
setModeUnchecked(c, mode) ==
    IF mode \notin Modes
    THEN [c EXCEPT !.returned = "threw"]
    ELSE [c EXCEPT !.currentMode = mode,
                   !.events = Append(@, [previousMode |-> c.currentMode,
                                         currentMode |-> mode,
                                         capabilities |-> c.capabilities[mode]]),
                   !.returned = "true"]

setMode(c, mode) ==
    IF mode \notin Modes
    THEN [c EXCEPT !.returned = "threw"]
    ELSE IF ~c.capabilities[mode].available
    THEN [c EXCEPT !.returned = "false"]
    ELSE [c EXCEPT !.currentMode = mode,
                   !.events = Append(@, [previousMode |-> c.currentMode,
                                         currentMode |-> mode,
                                         capabilities |-> c.capabilities[mode]]),
                   !.returned = "true"]

\* cap.maxRate * cap.reliability, in hundredths
score(cap) == cap.maxRate * cap.reliability

\* the forEach of selectOptimalMode over the modes from position i on,
\* given the best mode and score so far
RECURSIVE bestFrom(_, _, _, _)
bestFrom(capabilities, i, bestMode, bestScore) ==
    IF i > Len(ModeOrder) THEN bestMode
    ELSE LET cap == capabilities[ModeOrder[i]]
         IN  IF cap.available /\ score(cap) > bestScore
             THEN bestFrom(capabilities, i + 1, ModeOrder[i], score(cap))
             ELSE bestFrom(capabilities, i + 1, bestMode, bestScore)

\* selectOptimalMode that takes the first available mode
selectOptimalModeFirstAvailable(c) ==
    LET available == {i \in 1..Len(ModeOrder) : c.capabilities[ModeOrder[i]].available}
        bestMode  == IF available = {} THEN TransmissionMode.VISUAL
                     ELSE ModeOrder[CHOOSE i \in available : \A j \in available : i <= j]
        switched  == IF bestMode # c.currentMode THEN setMode(c, bestMode) ELSE c
    IN  [switched EXCEPT !.returned = bestMode]

selectOptimalMode(c) ==
    LET bestMode == bestFrom(c.capabilities, 1, TransmissionMode.VISUAL, 0)
        switched == IF bestMode # c.currentMode THEN setMode(c, bestMode) ELSE c
    IN  [switched EXCEPT !.returned = bestMode]

\* Math.floor(20 * Math.min(1, snr / 20) * (1 - errorRate)) and its audio twin
updateMaxRates(c) ==
    LET visual   == c.channelQuality.visual
        audioQ   == c.channelQuality.audio
        visualRate == (20 * Min(20, visual.snr) * (100 - visual.errorRate)) \div (20 * 100)
        audioRate  == (40 * Min(15, audioQ.snr) * (100 - audioQ.errorRate)) \div (15 * 100)
        combinedRate == visualRate + audioRate
    IN  [c EXCEPT !.capabilities.visual.maxRate = visualRate,
                  !.capabilities.audio.maxRate = audioRate,
                  !.capabilities.both.maxRate = (combinedRate * 9) \div 10]

updateModeAvailability(c) ==
    LET visualOk == c.channelQuality.visual.snr > 10 /\ c.channelQuality.visual.errorRate < 30
        audioOk  == c.channelQuality.audio.snr > 8 /\ c.channelQuality.audio.errorRate < 40
    IN  updateMaxRates([c EXCEPT !.capabilities.visual.available = visualOk,
                                 !.capabilities.audio.available = audioOk,
                                 !.capabilities.both.available = visualOk /\ audioOk])

\* updateChannelQuality choosing the mode before it updates the availability
updateChannelQualitySelectFirst(c, channelType, metrics) ==
    IF channelType \notin {"visual", "audio"}
    THEN [c EXCEPT !.returned = "threw"]
    ELSE LET selected == IF c.autoSelect THEN selectOptimalMode(c) ELSE c
         IN  [updateModeAvailability(
                 [selected EXCEPT !.channelQuality[channelType] = metrics])
              EXCEPT !.returned = "undefined"]

updateChannelQuality(c, channelType, metrics) ==
    IF channelType \notin {"visual", "audio"}
    THEN [c EXCEPT !.returned = "threw"]
    ELSE LET measured == updateModeAvailability(
                             [c EXCEPT !.channelQuality[channelType] = metrics])
         IN  IF measured.autoSelect
             THEN [selectOptimalMode(measured) EXCEPT !.returned = "undefined"]
             ELSE [measured EXCEPT !.returned = "undefined"]

\* updateConfig({autoSelect})
updateConfig(c, autoSelect) ==
    LET configured == [c EXCEPT !.autoSelect = autoSelect]
    IN  IF autoSelect
        THEN [selectOptimalMode(configured) EXCEPT !.returned = "undefined"]
        ELSE [configured EXCEPT !.returned = "undefined"]

\* createModeController({initialMode, autoSelect})
createModeController(initialMode, autoSelect) ==
    LET c == [currentMode  |-> initialMode,
              autoSelect   |-> autoSelect,
              capabilities |->
                 [visual |-> [available |-> TRUE, maxRate |-> 20, reliability |-> 95],
                  audio  |-> [available |-> TRUE, maxRate |-> 40, reliability |-> 90],
                  both   |-> [available |-> TRUE, maxRate |-> 60, reliability |-> 98]],
              channelQuality |->
                 [visual |-> [snr |-> 20, errorRate |-> 5],
                  audio  |-> [snr |-> 15, errorRate |-> 10]],
              \* what the last call was, what it was given, what it returned
              \* and the onModeChange callbacks it made
              entry    |-> "createModeController",
              given    |-> "none",
              returned |-> "undefined",
              events   |-> <<>>]
    IN  IF ~c.capabilities[initialMode].available
        THEN [selectOptimalMode(c) EXCEPT !.returned = "undefined"]
        ELSE c

\* a controller built with the default options; every other choice of
\* initialMode and autoSelect is reached from it by setMode and updateConfig
ControllerInit == controller = createModeController(TransmissionMode.VISUAL, TRUE)

\* a call of the controller's API starts with no callback made yet
modeCall(c, entry, given) ==
    [c EXCEPT !.entry = entry, !.given = given, !.events = <<>>]

UpdateChannelQuality ==
    /\ UNCHANGED controllerRest
    /\ \E channelType \in {"visual", "audio", "radio"}, snr \in Snrs, errorRate \in ErrorRates :
          controller' = updateChannelQuality(
                            modeCall(controller, "updateChannelQuality", channelType),
                            channelType, [snr |-> snr, errorRate |-> errorRate])

SelectOptimalMode ==
    /\ UNCHANGED controllerRest
    /\ controller' = selectOptimalMode(modeCall(controller, "selectOptimalMode", "none"))

SetMode ==
    /\ UNCHANGED controllerRest
    /\ \E mode \in Modes \cup {"radio"} :
          controller' = setMode(modeCall(controller, "setMode", mode), mode)

UpdateConfig ==
    /\ UNCHANGED controllerRest
    /\ \E autoSelect \in BOOLEAN :
          controller' = updateConfig(
                            modeCall(controller, "updateConfig",
                                     IF autoSelect THEN "true" ELSE "false"),
                            autoSelect)

ModeNext == UpdateChannelQuality \/ SelectOptimalMode \/ SetMode \/ UpdateConfig

-----------------------------------------------------------------------------
(* core/binaryHexConverter.js: createErrorCorrection                       *)
(*                                                                         *)
(* totalPackets is counted and only reported by getStatus; it is left      *)
(* out.  A length that is not a whole number is kept as a numerator (in    *)
(* quarters or fifths of a byte), and a 32-bit integer as the non-negative *)
(* number with the same bits.  An error rate                               *)
(* is the pair of detectedErrors and errorHistory.length, compared with    *)
(* 0.1 and 0.01 by cross-multiplication.                                   *)

\* errorStats.windowSize
windowSize == 10

\* the bytes handed to encode
PacketData == <<72>>

\* a ^ b of two non-negative integers
RECURSIVE xor(_, _)
xor(a, b) ==
    IF a = 0 /\ b = 0 THEN 0
    ELSE (((a % 2) + (b % 2)) % 2) + 2 * xor(a \div 2, b \div 2)

RECURSIVE calculateParity(_, _)
calculateParity(byte, strength) ==
    IF strength <= 0 THEN byte
    ELSE LET parity == calculateParity(byte, strength - 1)
         IN  xor(parity, parity * 2) % 256

hammingEncode(e, data) ==
    [k \in 1..(2 * Len(data)) |->
        IF k % 2 = 1 THEN data[(k + 1) \div 2]
        ELSE calculateParity(data[k \div 2], e.strength)]

\* {errors, samples} of getCurrentErrorRate: detectedErrors / errorHistory.length
getCurrentErrorRate(e) ==
    IF Len(e.errorHistory) = 0 THEN [errors |-> 0, samples |-> 1]
    ELSE [errors |-> e.detectedErrors, samples |-> Len(e.errorHistory)]

\* errorRate > 0.1, errorRate < 0.01
above(errorRate) == 10 * errorRate.errors > errorRate.samples
below(errorRate) == 100 * errorRate.errors < errorRate.samples

\* adjustStrength without the cap
adjustStrengthUncapped(e) ==
    LET errorRate == getCurrentErrorRate(e)
    IN  IF above(errorRate)
        THEN [e EXCEPT !.strength = e.strength + 1]
        ELSE IF below(errorRate) /\ e.strength > 1
        THEN [e EXCEPT !.strength = Max(e.strength - 1, 1)]
        ELSE e

adjustStrength(e) ==
    LET errorRate == getCurrentErrorRate(e)
    IN  IF above(errorRate)
        THEN [e EXCEPT !.strength = Min(e.strength + 1, 8)]
        ELSE IF below(errorRate) /\ e.strength > 1
        THEN [e EXCEPT !.strength = Max(e.strength - 1, 1)]
        ELSE e

\* updateErrorStats keeping the count when the window drops an error
updateErrorStatsKeepCount(e, hasError) ==
    LET sample   == IF hasError THEN 1 ELSE 0
        pushed   == Append(e.errorHistory, sample)
        counted  == e.detectedErrors + sample
        windowed ==
            IF Len(pushed) > windowSize
            THEN [e EXCEPT !.errorHistory = Tail(pushed),
                           !.detectedErrors = counted,
                           !.dropped = <<Head(pushed)>>]
            ELSE [e EXCEPT !.errorHistory = pushed, !.detectedErrors = counted]
    IN  IF windowed.adaptive THEN adjustStrength(windowed) ELSE windowed

updateErrorStats(e, hasError) ==
    LET sample   == IF hasError THEN 1 ELSE 0
        pushed   == Append(e.errorHistory, sample)
        counted  == e.detectedErrors + sample
        windowed ==
            IF Len(pushed) > windowSize
            THEN [e EXCEPT !.errorHistory = Tail(pushed),
                           !.detectedErrors = IF Head(pushed) = 1 THEN counted - 1
                                              ELSE counted,
                           !.dropped = <<Head(pushed)>>]
            ELSE [e EXCEPT !.errorHistory = pushed, !.detectedErrors = counted]
    IN  IF windowed.adaptive THEN adjustStrength(windowed) ELSE windowed

hammingDecode(e, packet) ==
    IF Len(packet) % 2 # 0
    THEN [e EXCEPT !.returned = [threw |-> TRUE, errors |-> 0, valid |-> FALSE,
                                 data |-> <<>>]]
    ELSE LET errorCount ==
                 Cardinality({i \in 1..(Len(packet) \div 2) :
                     packet[2 * i] # calculateParity(packet[2 * i - 1], e.strength)})
         IN  [updateErrorStats(e, errorCount > 0) EXCEPT
                 !.returned = [threw |-> FALSE, errors |-> errorCount, valid |-> TRUE,
                               data |-> [i \in 1..(Len(packet) \div 2) |->
                                            packet[2 * i - 1]]]]

\* a 32-bit integer as its four bytes, the lowest first
Word0 == <<0, 0, 0, 0>>

\* a | b of two non-negative integers
RECURSIVE bitOr(_, _)
bitOr(a, b) ==
    IF a = 0 /\ b = 0 THEN 0
    ELSE (IF (a % 2) + (b % 2) > 0 THEN 1 ELSE 0) + 2 * bitOr(a \div 2, b \div 2)

\* byte k of an array, 0 when the element is undefined (an index outside the
\* array, or not an integer)
elementOr0(bytes, k) == IF k \in 0..(Len(bytes) - 1) THEN bytes[k + 1] ELSE 0

\* checksum > 0x80000000 for the signed value the operator & leaves: its
\* upper 24 bits as a signed number against 0x800000, then its lowest byte
aboveSignBit(w) ==
    LET upper == w[4] * 65536 + w[3] * 256 + w[2]
        signed == IF w[4] >= 128 THEN upper - 16777216 ELSE upper
    IN  signed > 8388608 \/ (signed = 8388608 /\ w[1] > 0)

\* one turn of the checksum loop:
\* checksum = ((checksum << 8) ^ data[i]) & 0xFFFFFFFF, then
\* checksum ^ 0x104C11DB7 (whose low 32 bits are 04 C1 1D B7) when the
\* checksum is above 0x80000000
checksumStep(checksum, byte) ==
    LET shifted == <<xor(0, byte), checksum[1], checksum[2], checksum[3]>>
    IN  IF aboveSignBit(shifted)
        THEN <<xor(shifted[1], 183), xor(shifted[2], 29),
               xor(shifted[3], 193), xor(shifted[4], 4)>>
        ELSE shifted

\* the checksum loop over data[0 .. turns - 1], from turn i on
RECURSIVE checksumFrom(_, _, _, _)
checksumFrom(checksum, data, i, turns) ==
    IF i >= turns THEN checksum
    ELSE checksumFrom(checksumStep(checksum, elementOr0(data, i)), data, i + 1, turns)

\* (checksum >> (i * 8)) & 0xFF: the shift count is taken modulo 32
checksumByte(checksum, i) == checksum[(i % 4) + 1]

\* the least integer not below num / den, for num >= 0
turnsBelow(num, den) == (num + den - 1) \div den

\* reedSolomonEncode(data): checksumLength = Math.min(32, data.length / 4 *
\* strength) is kept in quarters; new Uint8Array drops the fraction of the
\* length, and a write past the end of the array is ignored
reedSolomonEncode(e, data) ==
    LET quarters == Min(128, Len(data) * e.strength)
        checksum == checksumFrom(Word0, data, 0, Len(data))
    IN  data \o [i \in 1..(quarters \div 4) |-> checksumByte(checksum, i - 1)]

\* encoded.slice(0, end) for an end given in fifths: the fraction is dropped
\* toward zero and a negative end counts from the end of the array
sliceTo(packet, fifths) ==
    LET end == IF fifths >= 0 THEN fifths \div 5 ELSE 0 - ((0 - fifths) \div 5)
        to  == IF end >= 0 THEN Min(end, Len(packet)) ELSE Max(Len(packet) + end, 0)
    IN  SubSeq(packet, 1, to)

\* actualChecksum |= encoded[dataLength + i] << (i * 8) for i below
\* checksumLength, both lengths in fifths
RECURSIVE actualFrom(_, _, _, _, _)
actualFrom(actual, packet, dataFifths, i, checksumFifths) ==
    IF 5 * i >= checksumFifths THEN actual
    ELSE actualFrom(
            [actual EXCEPT ![(i % 4) + 1] =
                bitOr(@, IF dataFifths % 5 = 0
                         THEN elementOr0(packet, (dataFifths \div 5) + i)
                         ELSE 0)],
            packet, dataFifths, i + 1, checksumFifths)

\* reedSolomonDecode(encoded): checksumLength = Math.min(32, encoded.length
\* / 5 * strength) and dataLength = encoded.length - checksumLength are kept
\* in fifths
reedSolomonDecode(e, packet) ==
    LET checksumFifths == Min(160, Len(packet) * e.strength)
        dataFifths     == 5 * Len(packet) - checksumFifths
        data           == sliceTo(packet, dataFifths)
        expected       == checksumFrom(Word0, data, 0,
                                       IF dataFifths > 0 THEN turnsBelow(dataFifths, 5)
                                       ELSE 0)
        actual         == actualFrom(Word0, packet, dataFifths, 0, checksumFifths)
        hasError       == expected # actual
    IN  [updateErrorStats(e, hasError) EXCEPT
            !.returned = [threw |-> FALSE, errors |-> IF hasError THEN 1 ELSE 0,
                          valid |-> ~hasError, data |-> data]]

\* encode of createErrorCorrection
correctionEncode(e, data) ==
    IF e.mode = "hamming" THEN hammingEncode(e, data)
    ELSE IF e.mode = "reed-solomon" THEN reedSolomonEncode(e, data)
    ELSE data

\* decode of createErrorCorrection
correctionDecode(e, packet) ==
    IF e.mode = "hamming" THEN hammingDecode(e, packet)
    ELSE IF e.mode = "reed-solomon" THEN reedSolomonDecode(e, packet)
    ELSE [e EXCEPT !.returned = [threw |-> FALSE, errors |-> 0, valid |-> TRUE,
                                 data |-> packet]]

\* a field that newConfig does not have
Undefined == "undefined"

\* updateConfig of createErrorCorrection
correctionUpdateConfig(e, newConfig) ==
    [e EXCEPT !.mode     = IF newConfig.mode # Undefined THEN newConfig.mode ELSE @,
              !.strength = IF newConfig.strength.defined THEN newConfig.strength.value ELSE @,
              !.adaptive = IF newConfig.adaptive.defined THEN newConfig.adaptive.value ELSE @]

resetStats(e) == [e EXCEPT !.detectedErrors = 0, !.errorHistory = <<>>]

\* createErrorCorrection() with the default options
ErrorCorrection0 ==
    [mode |-> "hamming", strength |-> 1, adaptive |-> TRUE,
     detectedErrors |-> 0, errorHistory |-> <<>>,
     \* the last call, what it returned and the entry that
     \* errorHistory.shift() removed during it, if it removed one
     entry |-> "createErrorCorrection",
     returned |-> [threw |-> FALSE, errors |-> 0, valid |-> TRUE, data |-> <<>>],
     dropped |-> <<>>,
     \* the bytes last handed to encode and the bytes encode returned
     original |-> <<>>, stored |-> <<>>]

CorrectionInit == corrector = ErrorCorrection0

\* what reaches decode: the packet encode built with the current strength,
\* the same with its parity byte damaged, or the same without its last byte
Packets(e) ==
    LET clean == hammingEncode(e, PacketData)
    IN  { clean,
          [clean EXCEPT ![2] = (@ + 1) % 256],
          SubSeq(clean, 1, 1) }

CorrectionDecode ==
    /\ UNCHANGED correctorRest
    /\ \E packet \in Packets(corrector) :
          corrector' = correctionDecode([corrector EXCEPT !.entry = "decode",
                                                          !.dropped = <<>>], packet)

\* a newConfig without fields, and the objects with one field that are
\* handed to updateConfig
NoConfig ==
    [mode |-> Undefined, strength |-> [defined |-> FALSE, value |-> 0],
     adaptive |-> [defined |-> FALSE, value |-> FALSE]]
NewConfigs ==
    {[NoConfig EXCEPT !.mode = mode] : mode \in {"hamming", "none"}}
        \cup {[NoConfig EXCEPT !.strength = [defined |-> TRUE, value |-> s]] : s \in {0, 9}}
        \cup {[NoConfig EXCEPT !.adaptive = [defined |-> TRUE, value |-> b]] : b \in BOOLEAN}

CorrectionUpdateConfig ==
    /\ UNCHANGED correctorRest
    /\ \E newConfig \in NewConfigs :
          corrector' = correctionUpdateConfig(
                           [corrector EXCEPT !.entry = "updateConfig",
                                             !.returned = ErrorCorrection0.returned,
                                             !.dropped = <<>>],
                           newConfig)

ResetStats ==
    /\ UNCHANGED correctorRest
    /\ corrector' = resetStats([corrector EXCEPT !.entry = "resetStats",
                                                 !.returned = ErrorCorrection0.returned,
                                                 !.dropped = <<>>])

CorrectionNext == CorrectionDecode \/ CorrectionUpdateConfig \/ ResetStats

\* createErrorCorrection({mode, strength, adaptive})
createErrorCorrection(mode, strength, adaptive) ==
    [ErrorCorrection0 EXCEPT !.mode = mode,
                             !.strength = IF strength = 0 THEN 1 ELSE strength,
                             !.adaptive = adaptive]

\* the samples a codec takes while bytes are on their way from encode to
\* decode, and the bytes handed to encode: one byte, four bytes, sixteen
MaxSamples == 3
RoundTripData ==
    {<<72>>, <<1, 2, 3, 4>>, <<1, 2, 3, 4, 5, 6, 7, 8, 9, 10, 11, 12, 13, 14, 15, 16>>}

\* the sender's call of encode; the bytes it returns are kept for decode
RoundTripEncode ==
    /\ UNCHANGED correctorRest
    /\ \E data \in RoundTripData :
          corrector' = [corrector EXCEPT !.entry = "encode",
                                         !.returned = ErrorCorrection0.returned,
                                         !.dropped = <<>>,
                                         !.original = data,
                                         !.stored = correctionEncode(corrector, data)]

\* decode of the bytes encode returned, unmodified
RoundTripDecode ==
    /\ UNCHANGED correctorRest
    /\ corrector.original # <<>>
    /\ Len(corrector.errorHistory) < MaxSamples
    /\ corrector' = correctionDecode([corrector EXCEPT !.entry = "decode stored",
                                                        !.dropped = <<>>],
                                      corrector.stored)

\* decode of other bytes in between
DecodeOther ==
    /\ UNCHANGED correctorRest
    /\ Len(corrector.errorHistory) < MaxSamples
    /\ \E packet \in Packets(corrector) :
          corrector' = correctionDecode([corrector EXCEPT !.entry = "decode",
                                                          !.dropped = <<>>], packet)

RoundTripNext == RoundTripEncode \/ RoundTripDecode \/ DecodeOther

-----------------------------------------------------------------------------
(* Specifications *)

InitParts == CodecInit /\ TrackerInit /\ AudioInit /\ ClassifierInit /\ FragmentInit
              /\ NetworkInit /\ ControllerInit /\ CorrectionInit
InitAll == InitParts /\ MeshInit

\* the codec on its own
InitCodec == InitAll /\ channel = "visual" /\ sequencer = Sequencer0(1)
SpecCodec == InitCodec /\ [][CodecNext]_vars

\* one framing state machine, visual or audio, fed samples by its sensor
FramingNext == TrackerNext \/ AudioNext
InitFraming == InitAll /\ channel \in {"visual", "audio"} /\ sequencer = Sequencer0(1)
SpecFraming == InitFraming /\ [][FramingNext]_vars

\* a frame analyzer on its own
InitClassifier == InitAll /\ channel = "visual" /\ sequencer = Sequencer0(1)
SpecClassifier == InitClassifier /\ [][ClassifierNext]_vars

\* a sequencer whose fragments reach an assembler over a lossy channel
InitFragment == InitAll /\ channel = "visual"
SpecFragment == InitFragment /\ [][FragmentNext]_vars

\* a network manager and the messages its neighbours hand to it
InitNetwork == InitAll /\ channel = "visual" /\ sequencer = Sequencer0(1)
SpecNetwork == InitNetwork /\ [][NetworkNext]_vars

\* a network node that hears discovery broadcasts on two paths
InitReorder == InitAll /\ channel = "visual" /\ sequencer = Sequencer0(1)
SpecReorder == InitReorder /\ [][ReorderNext]_vars

\* a network node on a forwarding cycle
InitCycle == InitAll /\ channel = "visual" /\ sequencer = Sequencer0(1)
SpecCycle == InitCycle /\ [][CycleNext]_vars

\* a network node that the application may stop
InitStop == InitAll /\ channel = "visual" /\ sequencer = Sequencer0(1)
SpecStop == InitStop /\ [][StopNext]_vars

\* a mesh of managers in which a discovery timer runs: a line of three with
\* fresh or old routes, or a triangle with fresh routes
InitDiscovery ==
    /\ InitParts /\ channel = "visual" /\ sequencer = Sequencer0(1)
    /\ \E links \in Topologies, clock \in MeshClocks :
          /\ links = Triangle => clock = 0
          /\ mesh = Mesh0(links, clock)
SpecDiscovery == InitDiscovery /\ [][DiscoveryNext]_vars
\* the transport delivers every message it was given
FairDiscovery == SpecDiscovery /\ WF_vars(MeshDeliver)

\* a line of three managers, any of them with empty tables, in which the
\* discovery timers run and the transport delivers every message it is given
InitJoin ==
    /\ InitParts /\ channel = "visual" /\ sequencer = Sequencer0(1)
    /\ \E newcomers \in SUBSET MeshNodes : mesh = Joining(newcomers)
SpecJoin == InitJoin /\ [][DiscoveryNext]_vars
FairJoin == SpecJoin /\ WF_vars(MeshBroadcast) /\ WF_vars(MeshDeliver)

\* a line of three managers with routes between all of them, whose
\* applications send data messages; the transport delivers every message
InitAck ==
    /\ InitParts /\ channel = "visual" /\ sequencer = Sequencer0(1)
    /\ mesh = Routed
SpecAck == InitAck /\ [][AckNext]_vars
FairAck == SpecAck /\ WF_vars(MeshDeliver)

\* the triangle with old routes, which every manager replaces and advertises
InitTriangle ==
    /\ InitParts /\ channel = "visual" /\ sequencer = Sequencer0(1)
    /\ mesh = Mesh0(Triangle, refreshWindow + 1)
SpecTriangle == InitTriangle /\ [][DiscoveryNext]_vars

\* an audio decoder that listens to tones of one symbolDuration each
InitTone == InitAll /\ channel = "audio" /\ sequencer = Sequencer0(1)
SpecTone == InitTone /\ [][ToneNext]_vars

\* a codec of any mode and strength whose encoded bytes come back to decode
InitRoundTrip ==
    /\ CodecInit /\ TrackerInit /\ AudioInit /\ ClassifierInit /\ FragmentInit
    /\ NetworkInit /\ ControllerInit /\ MeshInit
    /\ channel = "visual" /\ sequencer = Sequencer0(1)
    /\ \E mode \in {"none", "hamming", "reed-solomon"}, strength \in 1..8,
          adaptive \in BOOLEAN :
          corrector = createErrorCorrection(mode, strength, adaptive)
SpecRoundTrip == InitRoundTrip /\ [][RoundTripNext]_vars

\* a mode controller driven through its API
InitMode == InitAll /\ channel = "visual" /\ sequencer = Sequencer0(1)
SpecMode == InitMode /\ [][ModeNext]_vars

\* an error correction module driven through its API
InitCorrection == InitAll /\ channel = "visual" /\ sequencer = Sequencer0(1)
SpecCorrection == InitCorrection /\ [][CorrectionNext]_vars

\* the timer callback runs once its timer is due, and time passes
FairFraming == SpecFraming /\ WF_vars(TimerFire) /\ WF_vars(Tick)

-----------------------------------------------------------------------------
(* Claims about the codec (checked under SpecCodec) *)

\* C1: for every ASCII text, decoding the colour sequence produced by
\* encode(text) succeeds and returns exactly that text (stated here for the
\* texts encode accepts; encode throws on the empty text).
C1_RoundTrip ==
    (cpc = "decoded" /\ frameKind = "encode") =>
        (decoded.ok /\ decoded.text = msgText)

\* decode rejected the frame encode built for "H"
C1_Witness ==
    /\ cpc = "decoded"
    /\ frameKind = "encode"
    /\ msgText = <<72>>
    /\ ~decoded.ok
    /\ decoded.error = ErrChecksum

\* C2: encode(text) returns exactly START, three metadata symbols encoding
\* the length, one SYNC, the data symbols, one checksum symbol, one SYNC, END.
C2_CanonicalFrame ==
    (cpc = "encoded" /\ encoded.ok) =>
        LET metadata == createMetadataHeader(msgText)
            indexes  == binaryToColorIndexes(textToBinary(msgText))
            data     == [i \in 1..Len(indexes) |-> colorAt(indexes[i])]
        IN  /\ Len(metadata) = 3
            /\ encoded.colors =
                  <<START_SIGNAL>> \o metadata \o <<SYNC_SIGNAL>> \o data
                     \o <<colorAt(sum(indexes) % 8)>> \o <<SYNC_SIGNAL, END_SIGNAL>>

\* the frame encode built for "H" has two SYNC symbols after the metadata
C2_Witness ==
    /\ cpc = "encoded"
    /\ encoded.ok
    /\ msgText = <<72>>
    /\ Len(encoded.colors) = 12
    /\ encoded.colors[5] = SYNC_SIGNAL
    /\ encoded.colors[6] = SYNC_SIGNAL

\* C3: a frame in which exactly one data symbol was replaced by a different
\* value never decodes: decode fails with the checksum error and returns no text.
C3_CorruptionDetected ==
    (cpc = "decoded" /\ frameKind = "corrupt") =>
        (~decoded.ok /\ decoded.error = ErrChecksum /\ decoded.text = <<>>)

\* decode accepted the frame of "H" with one data symbol replaced, as another text
C3_Witness ==
    /\ cpc = "decoded"
    /\ frameKind = "corrupt"
    /\ msgText = <<72>>
    /\ decoded.ok
    /\ decoded.text # msgText

Positions(s, x) == {i \in 1..Len(s) : s[i] = x}

\* the sequence is one of those the claim says decode must reject
Unframed(s) ==
    \/ Len(s) < 5
    \/ Positions(s, START_SIGNAL) = {}
    \/ Positions(s, END_SIGNAL) = {}
    \/ \A i \in Positions(s, START_SIGNAL) :
          \A j \in Positions(s, SYNC_SIGNAL) : j < i
    \/ \A i \in Positions(s, END_SIGNAL) :
          \A j \in Positions(s, SYNC_SIGNAL) : j > i

\* C4: decode fails and returns no text whenever the sequence has fewer than
\* 5 symbols, no START, no END, no SYNC after the START, or no SYNC before
\* the END (the claim adds that the failure is a framing error).
C4_FramingRejected ==
    (cpc = "decoded" /\ Unframed(frame)) => (~decoded.ok /\ decoded.text = <<>>)

\* decode accepted a sequence whose END comes first, with no SYNC before it
C4_Witness ==
    /\ cpc = "decoded"
    /\ Unframed(frame)
    /\ decoded.ok
    /\ frame[1] = END_SIGNAL

-----------------------------------------------------------------------------
(* Claims about the framing state machines (checked under SpecFraming) *)

\* the status callback was called with this status and this error message
Reported(events, status, reason) ==
    \E i \in 1..Len(events) :
        events[i].cb = "status" /\ events[i].status = status /\ events[i].reason = reason

\* the message callback was called with this text
Delivered(events, text) ==
    \E i \in 1..Len(events) : events[i].cb = "message" /\ events[i].text = text

\* the outcome of the decode the machine m ran reached the registered callbacks
Emitted(m) ==
    IF m.result.ok
    THEN /\ m.onMessageCallback => Delivered(m.events, m.result.text)
         /\ m.onStatusChangeCallback => Reported(m.events, "decoded", "")
         /\ \A i \in 1..Len(m.events) : m.events[i].status # "error"
    ELSE /\ m.onStatusChangeCallback => Reported(m.events, "error", m.result.error)
         /\ \A i \in 1..Len(m.events) : m.events[i].cb # "message"

\* IDLE with nothing collected
VisualIdle(t) == ~t.tracking /\ t.colorSequence = <<>> /\ t.decodingState = NullState
AudioIdle(a) == ~a.isDecoding /\ a.symbolBuffer = <<>>

\* this step is a call of processColor / a run of processAudioFrame
ColorStep == tracker' # tracker /\ tracker'.entry = "processColor"
FrameStep == audio' # audio /\ audio'.entry = "processAudioFrame"

\* processColor classified a symbol while COLLECTING / while IDLE
SymbolWhileTracking == ColorStep /\ tracker.tracking /\ tracker'.detected # NoColor
SymbolWhileIdle == ColorStep /\ ~tracker.tracking /\ tracker'.detected # NoColor
\* that symbol is one too many for colorSequence
Overflowing == Len(tracker.colorSequence) >= maxSequenceLength

\* processAudioFrame heard a tone while decoding / while idle
ToneWhileDecoding == FrameStep /\ audio.isDecoding /\ audio'.heard \notin {NoFrequency, 0}
ToneWhileIdle == FrameStep /\ ~audio.isDecoding /\ audio'.heard \notin {NoFrequency, 0}

EndWhileTracking == SymbolWhileTracking /\ tracker'.detected = END_SIGNAL
EndWhileDecoding == ToneWhileDecoding /\ nearMarker(audio'.heard, endMarkerFreq)

Accepted(a, dominantFrequency, clock) ==
    /\ symbolIndexOf(dominantFrequency) \in 0..(symbolCount - 1)
    /\ clock - a.lastSymbolTime >= symbolDuration - symbolSlack

\* C7 as stated: while COLLECTING every classified symbol (in the audio
\* decoder, every tone it takes for a new symbol) is appended to the buffer
\* in arrival order, except SYNC, which is not appended and only refreshes
\* the time of the last activity.
C7_SyncNotAppended ==
    [][ /\ (SymbolWhileTracking /\ tracker'.tracking) =>
              /\ tracker'.lastActivityTime = now
              /\ IF tracker'.detected = SYNC_SIGNAL
                 THEN /\ tracker'.colorSequence = tracker.colorSequence
                      /\ tracker'.decodingState.colors = tracker.decodingState.colors
                 ELSE tracker'.colorSequence =
                         Append(tracker.colorSequence, tracker'.detected)
        /\ (ToneWhileDecoding /\ audio'.isDecoding) =>
              IF nearMarker(audio'.heard, syncFreq)
              THEN /\ audio'.symbolBuffer = audio.symbolBuffer
                   /\ audio'.lastSymbolTime = audioTime
              ELSE Accepted(audio, audio'.heard, audioTime) =>
                      audio'.symbolBuffer =
                         Append(audio.symbolBuffer, symbolIndexOf(audio'.heard))
      ]_vars

\* C7 amended: while COLLECTING the visual tracker appends every classified
\* colour, SYNC included, to colorSequence in arrival order and sets
\* lastActivityTime; decodingState's colours grow the same way, except that a
\* START restarts them; END, or the colour that exceeds maxSequenceLength,
\* ends the collection instead.  The audio decoder appends nothing for SYNC,
\* which only sets lastSymbolTime; it appends a tone's symbol index only when
\* the index is in range and the tone comes at least symbolDuration - 0.01
\* after the last symbol, and drops the tone otherwise.
C7_AppendedInOrder ==
    [][ /\ SymbolWhileTracking =>
              IF tracker'.detected = END_SIGNAL \/ Overflowing
              THEN VisualIdle(tracker')
              ELSE /\ tracker'.tracking
                   /\ tracker'.lastActivityTime = now
                   /\ tracker'.colorSequence =
                         Append(tracker.colorSequence, tracker'.detected)
                   /\ tracker'.decodingState.colors =
                         IF tracker'.detected = START_SIGNAL
                         THEN <<START_SIGNAL>>
                         ELSE Append(tracker.decodingState.colors, tracker'.detected)
        /\ (ToneWhileDecoding /\ ~nearMarker(audio'.heard, endMarkerFreq)) =>
              IF nearMarker(audio'.heard, syncFreq)
              THEN /\ audio'.isDecoding
                   /\ audio'.symbolBuffer = audio.symbolBuffer
                   /\ audio'.lastSymbolTime = audioTime
              ELSE IF Accepted(audio, audio'.heard, audioTime)
              THEN /\ audio'.isDecoding
                   /\ audio'.symbolBuffer =
                         Append(audio.symbolBuffer, symbolIndexOf(audio'.heard))
                   /\ audio'.lastSymbolTime = audioTime
              ELSE /\ audio'.lastSymbolTime = audio.lastSymbolTime
                   /\ \/ audio'.isDecoding /\ audio'.symbolBuffer = audio.symbolBuffer
                      \/ /\ AudioIdle(audio')
                         /\ audioTime - audio.lastSymbolTime > symbolDuration * 10
      ]_vars

\* a SYNC classified while COLLECTING sits at the end of both buffers
C7_Witness ==
    /\ tracker.entry = "processColor"
    /\ tracker.detected = SYNC_SIGNAL
    /\ tracker.tracking
    /\ tracker.colorSequence = <<START_SIGNAL, "#FF0000", SYNC_SIGNAL>>
    /\ tracker.decodingState.colors = tracker.colorSequence

\* C8: after a call of processColor the visual tracker's colorSequence never
\* holds more than maxSequenceLength symbols; the symbol that would exceed
\* the limit makes the tracker report the error, discard the sequence and
\* return to IDLE (without decoding).
C8_SequenceBounded ==
    [][ /\ Len(tracker'.colorSequence) <= maxSequenceLength
        /\ (SymbolWhileTracking /\ Overflowing) =>
              /\ VisualIdle(tracker')
              /\ tracker'.decodes = 0
              /\ tracker.onStatusChangeCallback =>
                    tracker'.events = << Event("status", "error", ErrTooLong, <<>>),
                                         Event("status", "reset", "", <<>>) >>
      ]_vars

\* the overflow was reported and the tracker is idle again
C8_Witness ==
    /\ tracker.entry = "processColor"
    /\ Reported(tracker.events, "error", ErrTooLong)
    /\ VisualIdle(tracker)

\* C9: whenever the visual tracker is COLLECTING and now - lastActivityTime
\* exceeds timeoutDuration, it eventually returns to IDLE.
C9_TimeoutFires ==
    (channel = "visual" /\ tracker.tracking
        /\ now - tracker.lastActivityTime > timeoutDuration)
    ~> ~tracker.tracking

\* the timer ran, found the last activity too recent and left the tracker
\* COLLECTING with no timer pending, and the inactivity has since exceeded
\* timeoutDuration
C9_Witness ==
    /\ tracker.entry = "timeout"
    /\ tracker.tracking
    /\ tracker.timerDue = NoTimer
    /\ now - tracker.lastActivityTime > timeoutDuration

\* the timer callback / the inactivity check of this step found a timeout
TimeoutStep ==
    /\ tracker' # tracker
    /\ tracker'.entry = "timeout"
    /\ tracker.tracking
    /\ now - tracker.lastActivityTime >= timeoutDuration
AudioTimeoutStep ==
    /\ ToneWhileDecoding \/ (FrameStep /\ audio.isDecoding /\ audio'.heard = NoFrequency)
    /\ ~nearMarker(audio'.heard, endMarkerFreq)
    /\ audio'.lastSymbolTime = audio.lastSymbolTime
    /\ audioTime - audio.lastSymbolTime > symbolDuration * 10

-----------------------------------------------------------------------------
(* Claims about the classifier (checked under SpecClassifier) *)

\* what the classifier guarantees for the current run of samples: its colour
\* is returned at most once; it is returned once some sample of the run came
\* with samplesRequired samples seen and minChangeTime elapsed since
\* lastChangeTime, provided it differed from lastDetectedColor when the run
\* began; otherwise it is not returned
ReportedOncePerChange ==
    /\ classifier.runReports <= 1
    /\ classifier.runReports = 1 <=> (classifier.runFresh /\ classifier.runDue)
    /\ classifier.returned # NoColor =>
          classifier.returned = classifier.runColor /\ classifier.runReports = 1

\* C11 as stated: a change to a different palette colour, seen in at least
\* samplesRequired consecutive in-threshold samples with at least
\* minChangeTime elapsed since the previous change, is reported exactly once,
\* and a colour that has been on show for less than minChangeTime is never
\* reported.
C11_NoFlickerReported ==
    /\ ReportedOncePerChange
    /\ (classifier.entry = "analyzeColor" /\ classifier.returned # NoColor) =>
          ctime - classifier.runStart >= minChangeTime

\* C11 amended: such a change is reported exactly once, at the first sample
\* of the run that comes with samplesRequired samples seen and minChangeTime
\* elapsed since the previous reported change (lastChangeTime, 0 after
\* construction and after reset()); no colour is reported earlier than
\* minChangeTime after the previous reported change, however long or short
\* the colour itself has been on show.
C11_ReportedOnce ==
    [][ /\ ReportedOncePerChange'
        /\ (classifier' # classifier /\ classifier'.entry = "analyzeColor"
               /\ classifier'.returned # NoColor) =>
              /\ ctime - classifier.analyzer.lastChangeTime >= minChangeTime
              /\ classifier'.analyzer.lastChangeTime = ctime
              /\ classifier'.runCount >= samplesRequired
      ]_vars

\* the colour of the current run was reported once, and a later sample of
\* the same run was not reported again
C11_Witness ==
    /\ classifier.entry = "analyzeColor"
    /\ classifier.returned = NoColor
    /\ classifier.runReports = 1
    /\ classifier.runColor = START_SIGNAL
    /\ classifier.analyzer.stableColorCount > 0

-----------------------------------------------------------------------------
(* Claims about the sequencer and the assembler (checked under SpecFragment) *)

\* some fragment of the outbox has been handed to addFragment, and the
\* delivery is undisturbed: the assembler held no buffer for the sequence
\* number when fragmentMessage returned, every fragment so far was delivered
\* once, and no timer fired and no reset() happened in between
Delivering ==
    /\ outbox.undisturbed
    /\ outbox.pending # 1..Len(outbox.fragments)

\* C12: for any content and any maxPayloadSize >= 1, when the fragments
\* returned by fragmentMessage are handed to addFragment in any order,
\* addFragment returns null for every fragment but the last one delivered
\* and, for the last one, a message whose content is the original content.
C12_ReassembledInAnyOrder ==
    Delivering =>
        /\ assembler.entry = "addFragment"
        /\ IF outbox.pending = {}
           THEN /\ assembler.returned # NoMessage
                /\ assembler.returned.content = outbox.content
           ELSE assembler.returned = NoMessage

\* a content of three characters cut into chunks of two was reassembled
\* from its fragments delivered last one first
C12_Witness ==
    /\ Delivering
    /\ outbox.pending = {}
    /\ Len(outbox.content) = 3
    /\ sequencer.maxPayloadSize = 2
    /\ assembler.given.fragmentNumber = 0
    /\ assembler.returned # NoMessage
    /\ assembler.returned.content = outbox.content

\* the slots that are filled once addFragment has stored the fragment f in
\* the assembler a
filledWith(a, f) ==
    {f.fragmentNumber} \cup
        (IF f.sequenceNumber \in DOMAIN a.fragments
         THEN DOMAIN a.fragments[f.sequenceNumber].fragments
         ELSE {})

\* C13: addFragment returns an assembled message only when every slot
\* 0..fragmentCount-1 of the buffer of that sequence number holds a fragment
\* received for that slot, and a fragment whose fragmentNumber is stored
\* already is ignored: null is returned and the buffers stay as they are.
C13_CompleteOnlyWhenFull ==
    [][ (assembler' # assembler /\ assembler'.entry = "addFragment"
            /\ assembler'.given.isFragment) =>
          /\ assembler'.returned # NoMessage =>
                \A slot \in 0..(assembler'.given.fragmentCount - 1) :
                    slot \in filledWith(assembler, assembler'.given)
          /\ (/\ assembler'.given.sequenceNumber \in DOMAIN assembler.fragments
              /\ assembler'.given.fragmentNumber \in
                    DOMAIN assembler.fragments[assembler'.given.sequenceNumber].fragments)
             => /\ assembler'.returned = NoMessage
                /\ assembler'.fragments = assembler.fragments
      ]_vars

\* addFragment returned an assembled message although fragments of the
\* message in the outbox have not been delivered
C13_Witness ==
    /\ assembler.entry = "addFragment"
    /\ assembler.given.isFragment
    /\ assembler.returned # NoMessage
    /\ outbox.pending # {}
    /\ assembler.given = outbox.fragments[1]
    /\ assembler.returned.content # outbox.content

\* C14: fragmentMessage cuts a content longer than maxPayloadSize into
\* ceil(length / maxPayloadSize) fragments that carry one sequence number
\* and are numbered 0..fragmentCount-1; the counter advances once per call,
\* fragmented or not, and wraps to 0 after maxSequence, so the k-th message
\* since construction (or the last reset()) has sequence number
\* (k-1) mod (maxSequence+1).
C14_SequenceNumbers ==
    /\ sequencer.currentSequence = sequencer.sent % (maxSequence + 1)
    /\ outbox.ordinal > 0 =>
          /\ Len(outbox.fragments) =
                IF Len(outbox.content) > sequencer.maxPayloadSize
                THEN CeilDiv(Len(outbox.content), sequencer.maxPayloadSize)
                ELSE 1
          /\ \A index \in 1..Len(outbox.fragments) :
                /\ outbox.fragments[index].sequenceNumber
                      = (outbox.ordinal - 1) % (maxSequence + 1)
                /\ outbox.fragments[index].fragmentNumber = index - 1
                /\ outbox.fragments[index].fragmentCount = Len(outbox.fragments)

\* the message after the one numbered maxSequence was cut into two fragments
\* numbered 0 again
C14_Witness ==
    /\ outbox.ordinal = maxSequence + 2
    /\ Len(outbox.fragments) = 2
    /\ outbox.fragments[2].sequenceNumber = 0
    /\ sequencer.currentSequence = 1

-----------------------------------------------------------------------------
(* Claims about the network manager (checked under SpecNetwork) *)

\* a step that is a call of the manager
NetCall(entry) == net' # net /\ net'.entry = entry
\* a processMessage call that gets past the message cache
Dispatching == NetCall("processMessage") /\ net'.message.id \notin DOMAIN net.messageCache

\* what a call handed to the transport, as a set, and the peers it reached
\* with the message m
Sent(n) == {n.out[i] : i \in 1..Len(n.out)}
Reached(n, m) == {o.to : o \in {x \in Sent(n) : x.message = m}}
\* the callbacks a call made
Callbacks(n) == {n.events[i] : i \in 1..Len(n.events)}

\* C15: updateRoute replaces a stored route only when the new hopCount is
\* smaller than the stored one, or equal to it with the stored route older
\* than the refresh window (5 s); otherwise the stored route stays as it is,
\* no route message of this node is sent for the destination and no
\* route-changed callback is made.
C15_RouteReplacedOnlyIfBetter ==
    [][ (net' # net /\ net'.entry # "cleanupStaleEntries") =>
          \A destination \in DOMAIN net.routes :
             /\ destination \in DOMAIN net'.routes
             /\ IF net'.routes[destination] # net.routes[destination]
                THEN \/ net'.routes[destination].hopCount
                            < net.routes[destination].hopCount
                     \/ /\ net'.routes[destination].hopCount
                            = net.routes[destination].hopCount
                        /\ netTime - net.routes[destination].timestamp > refreshWindow
                ELSE /\ \A o \in Sent(net') :
                          ~(o.message.type = ROUTE /\ o.message.sender = Self
                              /\ o.message.destination = destination)
                     /\ \A e \in Callbacks(net') :
                          ~(e.name = "onRouteChanged" /\ e.subject = destination)
      ]_vars

\* a route message offering the remote node at 2 hops was processed while a
\* route of 1 hop through the other neighbour was stored: the route stayed
C15_Witness ==
    /\ net.entry = "processMessage"
    /\ net.message.type = ROUTE
    /\ net.message.destination = Remote
    /\ net.message.hopCount = 2
    /\ net.message.id \in DOMAIN net.dispatchedAt
    /\ net.dispatchedAt[net.message.id] = netTime
    /\ Remote \in DOMAIN net.routes
    /\ net.routes[Remote].hopCount = 1
    /\ net.routes[Remote].nextHop # net.receivedFrom
    /\ net.events = <<>>

Wrapped(m, destinationId) ==
    [m EXCEPT !.originalSender = IF m.sender # None THEN m.sender ELSE Self,
              !.sender = Self, !.finalDestination = destinationId, !.routed = TRUE]
\* m with the id given to it on its way out, if it had none
Stamped(m) == IF m.id = None THEN [m EXCEPT !.id = uuid[Self]] ELSE m

ForAnother(m) == m.routed /\ m.finalDestination # None /\ m.finalDestination # Self
\* the acknowledgment of m
AckOf(m) == [Msg(ACK, uuid[Self], Self) EXCEPT !.referencedMessageId = m.id]

\* what C18 says of a data message that is for another node: forwarded once,
\* as it is, to the nextHop of the route to its finalDestination, or dropped
\* when there is no route; no callback
Forwarded ==
    /\ net'.events = <<>>
    /\ net'.peers = net.peers
    /\ net'.out = IF net'.message.finalDestination \in DOMAIN net.routes
                  THEN << [to |-> net.routes[net'.message.finalDestination].nextHop,
                           message |-> net'.message] >>
                  ELSE <<>>

\* the message of the call was handed to the application callback
Delivered2App ==
    \E e \in Callbacks(net') :
        /\ e.name = "onMessageReceived"
        /\ e.message = net'.message
        /\ e.subject = originOf(net'.message)

\* C18 as stated: a routed data message for another node is forwarded once
\* to the nextHop of the current route (or dropped) and never handed to the
\* application; a data message for this node is handed to the application
\* callback, and an acknowledgment is sent when it asks for one.
C18_AlwaysAcknowledged ==
    [][ (Dispatching /\ net'.message.type = DATA) =>
          IF ForAnother(net'.message) THEN Forwarded
          ELSE /\ Delivered2App
               /\ net'.message.requireAck =>
                     \E o \in Sent(net') :
                         /\ o.message.type = ACK
                         /\ o.message.referencedMessageId = net'.message.id
      ]_vars

\* C18 amended: ... a data message for this node is handed to the
\* application callback; when it asks for an acknowledgment, one is sent
\* with sendMessage to its origin (originalSender, else sender), so it goes
\* out only if the origin is a directly connected peer or a route to it
\* exists, and is dropped otherwise.
C18_RelayedOrDelivered ==
    [][ (Dispatching /\ net'.message.type = DATA) =>
          IF ForAnother(net'.message) THEN Forwarded
          ELSE /\ Delivered2App
               /\ net'.out =
                     IF ~net'.message.requireAck THEN <<>>
                     ELSE IF directlyConnected(net'.peers[originOf(net'.message)])
                     THEN << [to |-> originOf(net'.message),
                              message |-> AckOf(net'.message)] >>
                     ELSE IF originOf(net'.message) \in DOMAIN net.routes
                     THEN << [to |-> net.routes[originOf(net'.message)].nextHop,
                              message |-> Wrapped(AckOf(net'.message),
                                                  originOf(net'.message))] >>
                     ELSE <<>>
      ]_vars

\* a data message from a directly connected peer asked for an
\* acknowledgment, was delivered and acknowledged
C18_Witness ==
    /\ net.entry = "processMessage"
    /\ net.message.type = DATA
    /\ net.message.requireAck
    /\ Len(net.events) = 1
    /\ net.events[1].name = "onMessageReceived"
    /\ Len(net.out) = 1
    /\ net.out[1].message.type = ACK
    /\ net.out[1].to = net.message.sender

\* the copy of the message of the call that is relayed
RelayedCopy == [net'.message EXCEPT !.ttl = @ - 1]
\* the messages sent by the call that stem from the message of the call
Relays == {o \in Sent(net') : o.message.id = net'.message.id
                               /\ o.message.type = net'.message.type}

\* C19: a DISCOVERY or ROUTE message received is relayed only if its ttl is
\* greater than 1; the relayed copy carries ttl - 1 and goes, once, to every
\* peer recorded as directly connected except the one it was received from;
\* a DISCOVERY_RESPONSE is never relayed.
C19_RelayedWhileTtl ==
    [][ (Dispatching /\ net'.message.type \in {DISCOVERY, DISCOVERY_RESPONSE, ROUTE}) =>
          IF /\ net'.message.ttl > 1
             /\ net'.message.type # DISCOVERY_RESPONSE
             /\ ~(net'.message.type = DISCOVERY /\ net'.message.sender = Self)
          THEN /\ \A o \in Relays : o.message = RelayedCopy
               /\ Reached(net', RelayedCopy) =
                     {peerId \in DOMAIN net'.peers \ {net'.receivedFrom} :
                         directlyConnected(net'.peers[peerId])}
               /\ \A peerId \in Reached(net', RelayedCopy) :
                     Len(SelectSeq(net'.out, LAMBDA o :
                            o.to = peerId /\ o.message = RelayedCopy)) = 1
          ELSE Relays = {}
      ]_vars

\* a discovery of the remote node with ttl 2 came from one neighbour and
\* went on with ttl 1 to the other
C19_Witness ==
    /\ net.entry = "processMessage"
    /\ net.message.type = DISCOVERY
    /\ net.message.sender = Remote
    /\ net.message.ttl = 2
    /\ \E o \in Sent(net) :
          /\ o.to \in Neighbours \ {net.receivedFrom}
          /\ o.message.type = DISCOVERY
          /\ o.message.ttl = 1
          /\ o.message.sender = Remote

\* C20: whenever the node processes a DISCOVERY of a sender other than
\* itself, heard directly or relayed by another peer, it inserts or updates
\* the sender's peer record and hands a DISCOVERY_RESPONSE addressed to the
\* sender to the transport (directly or through a route).
C20_DiscoveryAnswered ==
    [][ (/\ Dispatching
         /\ net'.message.type = DISCOVERY
         /\ net'.message.sender # Self) =>
          /\ net'.message.sender \in DOMAIN net'.peers
          /\ net'.peers[net'.message.sender].lastSeen = netTime
          /\ \E o \in Sent(net') :
                /\ o.message.type = DISCOVERY_RESPONSE
                /\ o.message.receiver = net'.message.sender
      ]_vars

\* a relayed discovery of a node not known before was processed: the node
\* is recorded as a peer and no response went out
C20_Witness ==
    /\ net.entry = "processMessage"
    /\ net.message.type = DISCOVERY
    /\ net.message.sender = Remote
    /\ net.receivedFrom \in Neighbours
    /\ \E e \in Callbacks(net) : e.name = "onPeerDiscovered" /\ e.subject = Remote
    /\ Remote \in DOMAIN net.peers
    /\ \A o \in Sent(net) : o.message.type # DISCOVERY_RESPONSE

-----------------------------------------------------------------------------
(* The worked example of the encoder (checked under SpecCodec) *)

Hi == <<72, 105>>

\* C28: encoding "Hi" (binary 0100100001101001) yields the data symbols
\* [2,2,0,6,4,4] (Blue, Blue, Red, White, Magenta, Magenta) with checksum 2
\* (Blue), and the metadata header for length 2 is [0,0,4] (Red, Red,
\* Magenta); the frame encode returns carries exactly these symbols.
C28_HiExample ==
    (cpc = "encoded" /\ msgText = Hi) =>
        LET binary   == textToBinary(msgText)
            indexes  == binaryToColorIndexes(binary)
            checksum == calculateChecksum(indexes)
            metadata == createMetadataHeader(msgText)
            Blue     == "#0000FF"
            Red      == "#FF0000"
            White    == "#FFFFFF"
            Magenta  == "#FF00FF"
        IN  /\ binary = <<0,1,0,0,1,0,0,0, 0,1,1,0,1,0,0,1>>
            /\ indexes = <<2, 2, 0, 6, 4, 4>>
            /\ checksum = 2
            /\ colorAt(checksum) = Blue
            /\ metadata = <<Red, Red, Magenta>>
            /\ metadata = <<colorAt(0), colorAt(0), colorAt(4)>>
            /\ encoded.ok
            /\ slice(encoded.colors, 1, 4) = metadata
            /\ [p \in 1..6 |-> encoded.colors[6 + p]]
                   = <<Blue, Blue, Red, White, Magenta, Magenta>>
            /\ DataPositions(msgText) = 6..11
            /\ encoded.colors[13] = Blue

\* encode("Hi") has returned its frame of 15 symbols
C28_Witness ==
    /\ cpc = "encoded"
    /\ msgText = Hi
    /\ encoded.ok
    /\ Len(encoded.colors) = 15
    /\ frame = encoded.colors

-----------------------------------------------------------------------------
(* Claims about the mode controller (checked under SpecMode) *)

\* the modes available when the call of this step started
AvailableModes == {mode \in Modes : controller.capabilities[mode].available}

\* this step is a call of selectOptimalMode by the application
SelectingStep == controller'.entry = "selectOptimalMode"

\* the mode returned is a best one among the available modes, and is current
PicksBest ==
    LET bestMode == controller'.returned
    IN  /\ bestMode \in AvailableModes
        /\ \A mode \in AvailableModes :
              score(controller.capabilities[bestMode]) >= score(controller.capabilities[mode])
        /\ controller'.currentMode = bestMode

\* C26: selectOptimalMode picks, among the modes currently available, the
\* one with the largest maxRate x reliability, and the mode it returns and
\* makes current is always an available mode.
C26_OptimalIsAvailable == [][SelectingStep => PicksBest]_vars

\* with at least one mode available the best one is returned and made
\* current; with none, "visual" is returned and the current mode is kept
C26_OptimalWhenAny ==
    [][SelectingStep =>
          IF AvailableModes # {} THEN PicksBest
          ELSE /\ controller'.returned = TransmissionMode.VISUAL
               /\ controller'.currentMode = controller.currentMode
               /\ controller'.events = <<>>]_vars

\* selectOptimalMode has returned "visual" while no mode is available and
\* the current mode is another one
C26_Witness ==
    /\ controller.entry = "selectOptimalMode"
    /\ controller.returned = TransmissionMode.VISUAL
    /\ \A mode \in Modes : ~controller.capabilities[mode].available
    /\ controller.currentMode = TransmissionMode.AUDIO
    /\ controller.events = <<>>

\* C27: setMode called with a mode whose capability is currently
\* unavailable returns false, leaves the current mode unchanged and does
\* not fire the mode-change callback.
C27_UnavailableRefused ==
    [][(/\ controller'.entry = "setMode"
        /\ controller'.given \in Modes \ AvailableModes)
          => /\ controller'.returned = "false"
             /\ controller'.currentMode = controller.currentMode
             /\ controller'.events = <<>>
             /\ controller'.capabilities = controller.capabilities]_vars

\* setMode("both") has returned false while the audio channel is too noisy
C27_Witness ==
    /\ controller.entry = "setMode"
    /\ controller.given = TransmissionMode.BOTH
    /\ controller.returned = "false"
    /\ ~controller.capabilities.both.available
    /\ controller.capabilities.visual.available
    /\ controller.currentMode = TransmissionMode.VISUAL
    /\ controller.events = <<>>

-----------------------------------------------------------------------------
(* Claims about the error correction module (checked under SpecCorrection) *)

\* this step is a decode call that took a sample while adaptive is on
AdaptiveSample ==
    /\ corrector'.entry = "decode"
    /\ ~corrector'.returned.threw
    /\ corrector.mode = "hamming"
    /\ corrector.adaptive

\* the strength follows the error rate the window has after the call
Follows ==
    LET errorRate == getCurrentErrorRate(corrector')
    IN  /\ above(errorRate) => corrector'.strength >= corrector.strength
        /\ below(errorRate) => corrector'.strength <= corrector.strength

\* C25: with adaptive = true, across any sequence of decode calls the
\* strength never decreases on a call after which the error rate of the
\* window is above 0.1 and never increases on a call after which it is below
\* 0.01, and the strength stays within [1,8] in every reachable state.
C25_StrengthAdapts ==
    [][/\ corrector'.strength \in 1..8
       /\ AdaptiveSample => Follows]_vars

\* a decode call with adaptive on has taken an error-free sample and left
\* the strength at 0, the value updateConfig was given
C25_Witness ==
    /\ corrector.entry = "decode"
    /\ corrector.adaptive
    /\ corrector.mode = "hamming"
    /\ corrector.errorHistory = <<0>>
    /\ corrector.returned.errors = 0
    /\ corrector.strength = 0

-----------------------------------------------------------------------------
(* Stopping a channel (checked under SpecFraming) *)

\* what the audio decoder keeps between frames
Kept(a) == <<a.isListening, a.isDecoding, a.symbolBuffer, a.lastSymbolTime, a.currentMessage>>

\* reset() called on the visual tracker leaves it idle, without decoding
\* state and without a timer
ResetCancels ==
    tracker'.entry = "reset" =>
        /\ VisualIdle(tracker')
        /\ tracker'.decodingState = NullState
        /\ ~tracker'.timeoutId
        /\ tracker'.timerDue = NoTimer

\* a timer callback of the visual tracker runs only for the session that
\* armed it and is still collecting
TimerOfSession ==
    (tracker'.entry = "timeout" /\ tracker' # tracker) =>
        (tracker.tracking /\ tracker.timeoutId)

\* stopListening() leaves the audio decoder idle with an empty buffer
StopDiscards ==
    audio'.entry = "stopListening" => (AudioIdle(audio') /\ ~audio'.isListening)

\* this step runs processAudioFrame for an animation frame requested by a
\* session that was stopped
StaleFrame ==
    /\ audio'.entry = "processAudioFrame"
    /\ audio'.request = "stale"
    /\ audio' # audio \/ frameRequests' # frameRequests

\* such a run changes nothing and fires nothing
StaleFrameInert == StaleFrame => (Kept(audio') = Kept(audio) /\ audio'.events = <<>>)

\* C24: stopping or resetting a channel synchronously cancels its pending
\* inactivity timer and discards the incomplete decoding state: after reset()
\* on the visual tracker or stopListening() on the audio decoder the channel
\* is IDLE with an empty buffer, and no timer callback of the stopped session
\* changes state or fires a status later.
C24_StopCancels ==
    [][ResetCancels /\ TimerOfSession /\ StopDiscards /\ StaleFrameInert]_vars

\* the animation frame requested by a stopped session came after
\* startListening was called again: its processAudioFrame took the START
\* tone, began decoding and fired the status 'started'
C24_Witness ==
    /\ audio.entry = "processAudioFrame"
    /\ audio.request = "stale"
    /\ audio.isListening
    /\ audio.isDecoding
    /\ audio.onStatusChangeCallback
    /\ Reported(audio.events, "started", "")
    /\ frameRequests = [live |-> 1, stale |-> 1]


\* the peers, routes and cache entries a cleanup run finds too old
StalePeers == {p \in DOMAIN net.peers : netTime - net.peers[p].lastSeen > routeTimeout}
StaleRoutes == {d \in DOMAIN net.routes : netTime - net.routes[d].timestamp > routeTimeout}
StaleIds == {i \in DOMAIN net.messageCache :
                netTime - net.messageCache[i].timestamp > cacheLifetime}
\* the positions of the callbacks of a cleanup run for a peer or a route
LostPeerAt(n, p) ==
    {i \in 1..Len(n.events) : n.events[i].name = "onPeerLost" /\ n.events[i].subject = p}
LostRouteAt(n, d) ==
    {i \in 1..Len(n.events) : /\ n.events[i].name = "onRouteChanged"
                           /\ n.events[i].subject = d
                           /\ n.events[i].nextHop = Null}

\* C22: a run of cleanupStaleEntries removes every peer whose lastSeen and
\* every route whose timestamp is older than routeTimeout, makes one
\* onPeerLost callback per removed peer and one onRouteChanged callback with
\* nextHop null per removed route and no other callback, removes every cache
\* entry older than the cache lifetime (60 s), and leaves every younger peer,
\* route and cache entry as it was.
C22_CleanupRemovesStale ==
    [][ NetCall("cleanupStaleEntries") =>
          /\ net'.peers = restrict(net.peers, DOMAIN net.peers \ StalePeers)
          /\ net'.routes = restrict(net.routes, DOMAIN net.routes \ StaleRoutes)
          /\ net'.messageCache
                = restrict(net.messageCache, DOMAIN net.messageCache \ StaleIds)
          /\ \A p \in StalePeers : Cardinality(LostPeerAt(net', p)) = 1
          /\ \A d \in StaleRoutes : Cardinality(LostRouteAt(net', d)) = 1
          /\ Len(net'.events) = Cardinality(StalePeers) + Cardinality(StaleRoutes)
          /\ net'.out = <<>>
      ]_vars

\* a cleanup run removed a peer and a route and kept a younger peer and a
\* cache entry exactly as old as the cache lifetime
C22_Witness ==
    /\ net.entry = "cleanupStaleEntries"
    /\ Len(net.events) = 2
    /\ net.events[1].name = "onPeerLost"
    /\ net.events[2].name = "onRouteChanged"
    /\ net.events[2].nextHop = Null
    /\ net.events[1].subject \notin DOMAIN net.peers
    /\ net.events[2].subject \notin DOMAIN net.routes
    /\ \E p \in DOMAIN net.peers : netTime - net.peers[p].lastSeen = routeTimeout
    /\ \E i \in DOMAIN net.messageCache :
          netTime - net.messageCache[i].timestamp = cacheLifetime

\* the manager after stop(): both interval timers are cleared (only init
\* sets them, and init runs once, on creation)
Stopped(n) == ~n.discoveryTimer /\ ~n.cleanupTimer
\* stop() clears both timers and the three maps
StopClears ==
    NetCall("stop") =>
       /\ Stopped(net')
       /\ net'.peers = NoMap /\ net'.routes = NoMap /\ net'.messageCache = NoMap
       /\ net'.out = <<>> /\ net'.events = <<>>
\* no timer runs on a stopped manager
NoTimerRuns ==
    (Stopped(net) /\ net' # net) =>
       /\ net'.entry \notin {"broadcastDiscovery", "cleanupStaleEntries"}
       /\ Stopped(net')
\* a stopped manager makes no callback
NoCallback == (Stopped(net) /\ net' # net) => net'.events = <<>>
\* what holds of stop(): the timers and the maps
StopCancelsTimers == [][StopClears /\ NoTimerRuns]_vars

\* C23: after stop() both timers are cancelled and the peer, route and
\* cache maps are empty, and from then on the manager runs no discovery
\* broadcast, no cleanup and makes no event callback.
C23_StoppedIsSilent == [][StopClears /\ NoTimerRuns /\ NoCallback]_vars

\* a stopped manager processed a discovery message: it made a callback,
\* stored the sender as a peer again and answered
C23_Witness ==
    /\ Stopped(net)
    /\ net.entry = "processMessage"
    /\ net.message.type = DISCOVERY
    /\ \E e \in Callbacks(net) : e.name = "onPeerDiscovered"
    /\ net.message.sender \in DOMAIN net.peers
    /\ net.out # <<>>

\* the manager after it processed first one copy and then the other copy of
\* a discovery broadcast, both at the same time
DirectFirst(n, originator, relayer, clock) ==
    processMessage(processMessage(n, Broadcast(originator), originator, clock),
                   Relayed(Broadcast(originator)), relayer, clock)
RelayedFirst(n, originator, relayer, clock) ==
    processMessage(processMessage(n, Relayed(Broadcast(originator)), relayer, clock),
                   Broadcast(originator), originator, clock)

\* C21: when a discovery broadcast of a neighbour reaches this node both
\* directly and relayed by the other neighbour, the peer record of the
\* originator and the route to it are the same whichever copy is processed
\* first.
C21_OrderIrrelevant ==
    \A originator \in Neighbours, relayer \in Neighbours :
       originator # relayer =>
          LET direct  == DirectFirst(net, originator, relayer, netTime)
              relayed == RelayedFirst(net, originator, relayer, netTime)
          IN  /\ direct.peers[originator] = relayed.peers[originator]
              /\ direct.routes[originator] = relayed.routes[originator]

\* the copy relayed by C of B's broadcast came first and the direct copy
\* was dropped as a duplicate: B is stored as not directly connected and is
\* routed through C
C21_Witness ==
    /\ net.entry = "processMessage"
    /\ net.message = Broadcast("B")
    /\ net.receivedFrom = "B"
    /\ net.out = <<>> /\ net.events = <<>>
    /\ net.messageCache[uuid["B"]].receivedFrom = "C"
    /\ net.messageCache[uuid["B"]].timestamp = netTime
    /\ ~net.peers["B"].directlyConnected
    /\ net.routes["B"].nextHop = "C"

\* no message is in flight between the managers of the mesh
Quiet == mesh.flight = {}
\* no manager has used up the ids of the model
IdsSuffice ==
    \A p \in MeshNodes : mesh.managers[p].nextUuid # uuids[p][Len(uuids[p])]
\* the transport is never given a message equal to one it still holds
NeverMerged ==
    [][Cardinality(mesh'.flight) - Cardinality(mesh.flight)
          \in {mesh'.sent - mesh.sent, mesh'.sent - mesh.sent - 1}]_vars

\* C30: with no further timer run, the traffic one discovery broadcast
\* causes (responses, relays and route messages) dies out: the managers
\* send a bounded number of messages and the mesh comes to have no message
\* in flight, for good.
Bounded == mesh.sent <= mesh.broadcasts * MaxTraffic
C30_TrafficDiesOut == []Bounded /\ <>[]Quiet

\* a discovery broadcast was made, it caused responses, relays and route
\* messages, and all of them were delivered
C30_Witness ==
    /\ mesh.broadcasts = 1
    /\ mesh.sent > 12
    /\ Quiet
    /\ \E p \in MeshNodes : Cardinality(DOMAIN mesh.managers[p].messageCache) >= 3
    /\ \A p \in MeshNodes : DOMAIN mesh.managers[p].routes = MeshNodes \ {p}

\* a data message reaches processMessage of a node that handled a message
\* of this id before
SeenBefore ==
    /\ NetCall("processMessage")
    /\ net'.message.type = DATA
    /\ net'.message.id \in DOMAIN net.dispatchedAt
\* the same, within the lifetime of a cache entry
SeenLately ==
    SeenBefore /\ netTime - net.dispatchedAt[net'.message.id] <= cacheLifetime
\* the node neither relays the message nor hands it to the application
Dropped == net'.out = <<>> /\ net'.events = <<>>
\* what the message cache ensures
DroppedWhileCached == [][SeenLately => Dropped]_vars

\* C29: a node of a forwarding cycle relays a data message at most once and
\* hands it to the application at most once: when the message comes round
\* again, the node neither sends it on nor delivers it.
C29_RelayedOnce == [][SeenBefore => Dropped]_vars

\* the message came round after the cleanup timer had purged its cache
\* entry, the route to the remote node was still there, and the node sent
\* the message to its next hop a second time
C29_Witness ==
    /\ net.entry = "processMessage"
    /\ net.message = Circulating(Remote)
    /\ net.dispatchedAt[messageId] = netTime
    /\ net.messageCache[messageId].timestamp = netTime
    /\ netTime > cacheLifetime
    /\ Len(net.out) = 1
    /\ net.out[1].to = net.routes[Remote].nextHop
    /\ net.out[1].message = Circulating(Remote)

\* the modes available when the call of this step has returned
AvailableAfter == {mode \in Modes : controller'.capabilities[mode].available}

\* C39: with autoSelect enabled, after every updateChannelQuality call the
\* current mode is an available mode whenever at least one mode is
\* available.
C39_AutoSelectKeepsAvailable ==
    [][(controller'.entry = "updateChannelQuality" /\ controller'.autoSelect) =>
          (AvailableAfter # {} => controller'.currentMode \in AvailableAfter)]_vars

\* with autoSelect on, updateChannelQuality reported a visual channel too
\* noisy: the controller changed to "audio", the only mode left
C39_Witness ==
    /\ controller.entry = "updateChannelQuality"
    /\ controller.given = "visual"
    /\ controller.autoSelect
    /\ ~controller.capabilities.visual.available
    /\ controller.capabilities.audio.available
    /\ controller.currentMode = TransmissionMode.AUDIO
    /\ Len(controller.events) = 1

\* the number of error entries in a history
RECURSIVE errorEntries(_)
errorEntries(history) ==
    IF history = <<>> THEN 0 ELSE Head(history) + errorEntries(Tail(history))

\* C40: the error history never holds more than windowSize (100) entries,
\* detectedErrors always equals the number of error entries in the history,
\* and the error rate reported is between 0 and 1.
C40_WindowConsistent ==
    /\ Len(corrector.errorHistory) <= windowSize
    /\ corrector.detectedErrors = errorEntries(corrector.errorHistory)
    /\ getCurrentErrorRate(corrector).errors >= 0
    /\ getCurrentErrorRate(corrector).errors <= getCurrentErrorRate(corrector).samples

\* a decode with a full history pushed an error-free sample and dropped the
\* oldest entry, an error: the count went down with it
C40_Witness ==
    /\ corrector.entry = "decode"
    /\ corrector.dropped = <<1>>
    /\ Len(corrector.errorHistory) = windowSize
    /\ corrector.errorHistory[windowSize] = 0
    /\ corrector.detectedErrors = errorEntries(corrector.errorHistory)
    /\ corrector.detectedErrors > 0

\* this step is a decode of the bytes encode returned
DecodingStored == corrector'.entry = "decode stored"
\* decode gave back the bytes handed to encode, with no error
CameBack ==
    /\ ~corrector'.returned.threw
    /\ corrector'.returned.data = corrector.original
    /\ corrector'.returned.errors = 0
    /\ corrector'.returned.valid
\* what holds: the round trip without error correction, and with the
\* parity bytes of 'hamming' as long as the strength is not adapted
RoundTripWithoutAdapting ==
    [][(/\ DecodingStored
        /\ \/ corrector.mode = "none"
           \/ corrector.mode = "hamming" /\ ~corrector.adaptive) => CameBack]_vars

\* C36: for each mode and each strength 1..8, the bytes encode returned,
\* handed unmodified to decode of the same codec, come back with data equal
\* to the original bytes, errors = 0 and valid = true, whatever other
\* decode calls happened in between.
C36_RoundTrip == [][DecodingStored => CameBack]_vars

\* a 'reed-solomon' codec of strength 1 decoded the five bytes it had made
\* of 1, 2, 3, 4 right after encode and reported an error
C36_Witness ==
    /\ corrector.entry = "decode stored"
    /\ corrector.mode = "reed-solomon"
    /\ corrector.strength = 1
    /\ corrector.original = <<1, 2, 3, 4>>
    /\ corrector.stored = <<1, 2, 3, 4, 4>>
    /\ corrector.returned.data = <<1, 2, 3, 4>>
    /\ corrector.returned.errors = 1
    /\ ~corrector.returned.valid
    /\ corrector.errorHistory = <<1>>

\* what processAudioFrame leaves of the decoder when a frame comes now with
\* the given spectrum
AfterFrame(frequencyData) == processAudioFrame(audio, frequencyData, audioTime)
\* the frame aborts: status 'error', nothing collected, not decoding
AudioAborted(a) ==
    /\ \E i \in 1..Len(a.events) : a.events[i].status = "error"
    /\ a.symbolBuffer = <<>>
    /\ ~a.isDecoding

\* C37: the audio decoder's symbol buffer never grows beyond a bound: the
\* frame whose symbol would exceed the bound aborts with an error and resets
\* the decoder to IDLE instead.
C37_AudioBufferBounded ==
    \A frequencyData \in Spectra :
        \/ Len(AfterFrame(frequencyData).symbolBuffer) <= MaxSymbolBuffer
        \/ AudioAborted(AfterFrame(frequencyData))

\* the buffer holds as many symbols as the model lets it hold and a data
\* tone that comes now is appended as one more, with status 'symbol' only
C37_Witness ==
    /\ audio.isListening /\ audio.isDecoding
    /\ audio.onStatusChangeCallback
    /\ Len(audio.symbolBuffer) = MaxSymbolBuffer
    /\ Len(AfterFrame([maxIndex |-> 23, maxValue |-> 200]).symbolBuffer)
           = MaxSymbolBuffer + 1
    /\ AfterFrame([maxIndex |-> 23, maxValue |-> 200]).isDecoding
    /\ \A i \in 1..Len(AfterFrame([maxIndex |-> 23, maxValue |-> 200]).events) :
           AfterFrame([maxIndex |-> 23, maxValue |-> 200]).events[i].status = "symbol"

\* the tone in the air is over
ToneOver == audioTime = audio.tone.since + symbolDuration
\* what a decoder that is decoding takes the tone for
HeardTone == findDominantFrequency(audio.tone.frequencyData)
MarkerTone ==
    /\ HeardTone # NoFrequency
    /\ \/ nearMarker(HeardTone, startMarkerFreq)
       \/ nearMarker(HeardTone, endMarkerFreq)
       \/ nearMarker(HeardTone, syncFreq)
DataTone ==
    /\ HeardTone # NoFrequency
    /\ ~MarkerTone
    /\ symbolIndexOf(HeardTone) \in 0..(symbolCount - 1)

\* C34: a single continuous tone is never read as several symbols: a data
\* tone that lasts one symbolDuration and begins while the decoder is
\* decoding has added exactly one symbol to the buffer when it is over,
\* however many frames observed it, and a START, SYNC or END marker tone
\* has added none.
C34_OneSymbolPerTone ==
    /\ MarkerTone => audio.tone.added = 0
    /\ (DataTone /\ audio.tone.decoding) => audio.tone.added <= 1
    /\ (DataTone /\ audio.tone.decoding /\ ToneOver /\ audio.tone.frames > 0)
           => audio.tone.added = 1

\* a data tone that began while decoding was observed by two frames within
\* its symbolDuration and both added its symbol
C34_Witness ==
    /\ DataTone /\ audio.tone.decoding
    /\ audioTime < audio.tone.since + symbolDuration
    /\ audio.tone.frames = 2
    /\ audio.tone.added = 2
    /\ Len(audio.symbolBuffer) = 2
    /\ audio.symbolBuffer[1] = audio.symbolBuffer[2]

\* this step is a call of addFragment with a fragment
FragmentArrives ==
    /\ assembler' # assembler
    /\ assembler'.entry = "addFragment"
    /\ assembler'.given.isFragment
\* the fragments a message assembled for the fragment f is made of
usedFor(a, f) ==
    {f} \cup (IF f.sequenceNumber \in DOMAIN a.fragments
              THEN {a.fragments[f.sequenceNumber].fragments[slot] :
                       slot \in DOMAIN a.fragments[f.sequenceNumber].fragments}
              ELSE {})
\* a timer fires: the buffer of one sequence number and its timer entry are
\* deleted, the others stay, and nothing is returned
TimeoutDeletes ==
    (assembler' # assembler /\ assembler'.entry = "timeout") =>
        \E sequenceNumber \in assembler.timeouts :
            /\ sequenceNumber \in DOMAIN assembler.fragments
            /\ assembler'.fragments = delete(assembler.fragments, sequenceNumber)
            /\ assembler'.timeouts = assembler.timeouts \ {sequenceNumber}
            /\ assembler'.returned = NoMessage
\* no message returned is made of a fragment that was deleted by a timer
\* and has not arrived again
ExpiredNeverReturned ==
    (FragmentArrives /\ assembler'.returned # NoMessage) =>
        \A index \in outbox'.expired :
            outbox.fragments[index] \notin usedFor(assembler, assembler'.given)
\* a fragment that finds no buffer for its sequence number starts one that
\* holds this fragment alone, with a timer of its own
StartsFresh ==
    (FragmentArrives /\ assembler'.given.sequenceNumber \notin DOMAIN assembler.fragments) =>
        LET sequenceNumber == assembler'.given.sequenceNumber
        IN  /\ assembler'.returned = NoMessage
            /\ sequenceNumber \in DOMAIN assembler'.fragments
            /\ sequenceNumber \in assembler'.timeouts
            /\ assembler'.fragments[sequenceNumber].received = 1
            /\ DOMAIN assembler'.fragments[sequenceNumber].fragments
                   = {assembler'.given.fragmentNumber}

\* C33: when the timer of a sequence number fires before all its fragments
\* have arrived, the incomplete buffer and its timer entry are deleted, no
\* message is ever returned for the fragments received before, and a
\* fragment that arrives afterwards starts a fresh buffer.
C33_TimeoutDropsPartial ==
    [][TimeoutDeletes /\ ExpiredNeverReturned /\ StartsFresh]_vars

\* after a timer deleted the buffer that held the first fragment of the
\* message in the outbox, its second fragment arrived and started a buffer
\* that holds it alone
C33_Witness ==
    /\ outbox.expired = {1}
    /\ outbox.pending = {}
    /\ Len(outbox.fragments) = 2
    /\ assembler.entry = "addFragment"
    /\ assembler.given = outbox.fragments[2]
    /\ assembler.returned = NoMessage
    /\ assembler.timeouts = {assembler.given.sequenceNumber}
    /\ assembler.fragments[assembler.given.sequenceNumber].received = 1

\* C35: the assembler never combines fragments of two different messages
\* into one assembled message, even when messages share a sequence number:
\* a message returned for a fragment is made of fragments of the message
\* that fragment belongs to.
C35_NeverCombined ==
    [][(FragmentArrives /\ assembler'.returned # NoMessage) =>
          \A used \in usedFor(assembler, assembler'.given) :
              \E index \in 1..Len(outbox.fragments) : outbox.fragments[index] = used
      ]_vars

\* the assembler returned a content that no sender sent: the beginning of
\* one word followed by the end of the other
C35_Witness ==
    /\ assembler.entry = "addFragment"
    /\ assembler.given.isFragment
    /\ assembler.returned # NoMessage
    /\ Len(assembler.returned.content) = 3
    /\ assembler.returned.content \notin Contents
    /\ assembler.given.fragmentNumber = 1
    /\ outbox.pending = {1}

\* p and q are in each other's peer tables
Met(p, q) ==
    /\ q \in DOMAIN mesh.managers[p].peers
    /\ p \in DOMAIN mesh.managers[q].peers
\* p and q see each other and both started with empty tables
Strangers(p, q) == p # q /\ {p, q} \in Line /\ {p, q} \subseteq mesh.newcomers

\* C31: two nodes that start with empty peer tables and whose transports can
\* deliver messages between them eventually appear in each other's peer
\* tables through the periodic discovery broadcasts.
C31_NewcomersMeet ==
    \A p \in MeshNodes : \A q \in MeshNodes : Strangers(p, q) ~> Met(p, q)

\* what holds: a manager whose peer table is empty hands nothing to the
\* transport, so that among newcomers alone no table ever gets an entry
NewcomersStaySilent ==
    mesh.newcomers = MeshNodes =>
        /\ mesh.sent = 0 /\ mesh.flight = {}
        /\ \A p \in MeshNodes : DOMAIN mesh.managers[p].peers = {}

\* three newcomers: a discovery timer ran, nothing was handed to the
\* transport and every peer table is still empty
C31_Witness ==
    /\ mesh.newcomers = MeshNodes
    /\ mesh.broadcasts > 0
    /\ mesh.sent = 0
    /\ mesh.flight = {}
    /\ \A p \in MeshNodes : DOMAIN mesh.managers[p].peers = {}

\* the transmissions it takes at least to get from p to q in a mesh of
\* three managers that hangs together
transmissions(links, p, q) ==
    IF p = q THEN 0 ELSE IF {p, q} \in links THEN 1 ELSE 2
\* the route of p to destination is truthful
Truthful(p, destination) ==
    LET route == mesh.managers[p].routes[destination]
    IN  /\ route.nextHop \in linked(mesh.links, p)
        /\ 1 + transmissions(mesh.links, route.nextHop, destination) <= route.hopCount
        /\ route.hopCount = 1 => route.nextHop = destination

\* C32: route hop counts are truthful: whenever a node holds a route to a
\* destination with hopCount h, the destination is reachable through the
\* route's nextHop in at most h transmissions; in particular every route
\* with hopCount 1 has the destination itself as nextHop.
C32_HopCountsTruthful ==
    \A p \in MeshNodes :
        \A destination \in DOMAIN mesh.managers[p].routes : Truthful(p, destination)

\* in the line A - B - C, C holds a route to A through B with hopCount 1,
\* installed when B relayed the discovery broadcast of A
C32_Witness ==
    /\ mesh.links = Line
    /\ "A" \in DOMAIN mesh.managers["C"].routes
    /\ mesh.managers["C"].routes["A"].nextHop = "B"
    /\ mesh.managers["C"].routes["A"].hopCount = 1
    /\ "A" \in DOMAIN mesh.managers["C"].peers
    /\ ~mesh.managers["C"].peers["A"].directlyConnected

\* an acknowledgment routed to p is on its way, or was handed to a manager
AckSetOut(p) ==
    \E f \in mesh.flight \cup mesh.acks :
        /\ f.message.type = ACK
        /\ f.message.routed
        /\ f.message.finalDestination = p
\* processMessage of p was handed an acknowledgment meant for p
AckArrived(p) ==
    \E f \in mesh.acks :
        /\ f.to = p
        /\ \/ f.message.finalDestination = p
           \/ ~f.message.routed

\* C38: the acknowledgment of a data message that reached its final
\* destination over a route of several hops is forwarded by each node in
\* between toward the original sender, so that it reaches the original
\* sender whenever the routes back to it exist.
C38_AckReachesSender == \A p \in MeshNodes : AckSetOut(p) ~> AckArrived(p)

\* what holds: the acknowledgment of a data message sent to a neighbour
\* arrives
DirectAckArrives ==
    \A p \in MeshNodes :
        (\E f \in mesh.flight : /\ f.message.type = ACK /\ ~f.message.routed
                                /\ f.to = p)
            ~> AckArrived(p)

\* the acknowledgment that C routed to A was handed to B, which has the
\* route to A; nothing is on its way any more and A never got it
C38_Witness ==
    /\ \E f \in mesh.acks :
          /\ f.from = "C" /\ f.to = "B"
          /\ f.message.routed
          /\ f.message.originalSender = "C"
          /\ f.message.finalDestination = "A"
    /\ "A" \in DOMAIN mesh.managers["B"].routes
    /\ mesh.flight = {}
    /\ ~AckArrived("A")
====
